---- MODULE Spec2Model ----
(***************************************************************************)
(* A model of the resolution-and-matching core of react2shell-guard: the   *)
(* rule matcher (src/core/matcher.ts), the lockfile parsers' file-level    *)
(* contract (src/core/parsers/lockfile-*.ts), the workspace resolver       *)
(* (src/core/workspace.ts) and the scan orchestrator (src/core/scanner.ts).*)
(*                                                                         *)
(* Every operation of the core is synchronous and takes its whole input    *)
(* up front, so each is one action: the inputs are drawn in the initial    *)
(* state (pc = "ready"), the action applies the operation as the code      *)
(* computes it and stores what it returned (pc = "done").                  *)
(***************************************************************************)
EXTENDS Integers, Sequences, FiniteSets, TLC

VARIABLES
    pc,      \* "ready" before the operation ran, "done" after it returned or threw
    args,    \* the operation's name and its arguments (for the scanner: root and rule)
    fs,      \* the filesystem the operation reads (never written by the core)
    ret,     \* what the operation returned, and what it did on the way
    cachedRules  \* rules.ts: the module-level rule cache (null or a rule list)

vars == <<pc, args, fs, ret, cachedRules>>

(***************************************************************************)
(* Bounds of the model.                                                    *)
(***************************************************************************)
MaxMajor == 2
MaxMinor == 2
MaxPatch == 1
MaxFixed == 3
MaxRuleEntries == 2
MaxPatterns == 2

NoFs == [none |-> TRUE]
NoRet == [none |-> TRUE]

\* let cachedRules: CVERule[] | null = null
NoCache == [populated |-> FALSE, rules |-> <<>>]
Cached(rules) == [populated |-> TRUE, rules |-> rules]

(***************************************************************************)
(* Version strings.  A string is either a semver version, optionally with  *)
(* a leading "v" and optionally a prerelease tag, or one of the texts that *)
(* semver cannot parse.  JavaScript's undefined is a value of its own.     *)
(***************************************************************************)
VersionString(text, lead, major, minor, patch, pre) ==
    [text |-> text, lead |-> lead, major |-> major, minor |-> minor,
     patch |-> patch, pre |-> pre]

Undefined == VersionString("undefined", "", 0, 0, 0, FALSE)

V(major, minor, patch) == VersionString("semver", "", major, minor, patch, FALSE)

UnparseableStrings ==
    { VersionString(t, "", 0, 0, 0, FALSE) : t \in {"", "invalid", "abc.def.ghi"} }

SemverStrings ==
    { VersionString("semver", l, ma, mi, pa, pr) :
        l \in {"", "v"}, ma \in 1..MaxMajor, mi \in 0..MaxMinor,
        pa \in 0..MaxPatch, pr \in BOOLEAN }

VersionStrings == SemverStrings \cup UnparseableStrings

IsSemver(v) == v.text = "semver"

\* semver.clean: strips the leading "v"; null when the rest is no version.
SemverClean(v) == IF IsSemver(v) THEN [v EXCEPT !.lead = ""] ELSE Undefined

\* semver.compare on two parseable versions: -1, 0 or 1.  The leading "v" is
\* not part of the version; a prerelease sorts before its release.
SemverCompare(a, b) ==
    IF a.major # b.major THEN (IF a.major < b.major THEN -1 ELSE 1)
    ELSE IF a.minor # b.minor THEN (IF a.minor < b.minor THEN -1 ELSE 1)
    ELSE IF a.patch # b.patch THEN (IF a.patch < b.patch THEN -1 ELSE 1)
    ELSE IF a.pre = b.pre THEN 0
    ELSE IF a.pre THEN -1 ELSE 1

(***************************************************************************)
(* Range expressions: a union (||) of comparator sets, each a conjunction  *)
(* of comparators; or a text that is no range at all.                      *)
(***************************************************************************)
Comparator(op, v) == [op |-> op, v |-> v]

CompTest(c, v) ==
    LET k == SemverCompare(v, c.v) IN
    CASE c.op = ">=" -> k >= 0
      [] c.op = ">"  -> k > 0
      [] c.op = "<=" -> k <= 0
      [] c.op = "<"  -> k < 0
      [] OTHER       -> k = 0

\* A prerelease version satisfies a comparator set only if some comparator of
\* the set carries a prerelease of the same major.minor.patch.
CompSetTest(set, v) ==
    /\ \A j \in DOMAIN set : CompTest(set[j], v)
    /\ v.pre => \E j \in DOMAIN set :
                    /\ set[j].v.pre
                    /\ set[j].v.major = v.major
                    /\ set[j].v.minor = v.minor
                    /\ set[j].v.patch = v.patch

RangeTest(range, v) == \E i \in DOMAIN range.sets : CompSetTest(range.sets[i], v)

Range(sets) == [malformed |-> FALSE, sets |-> sets]
MalformedRange == [malformed |-> TRUE, sets |-> <<>>]

\* ">=lo <hi"
Interval(lo, hi) == <<Comparator(">=", lo), Comparator("<", hi)>>

\* semver.satisfies(version, range) on a cleaned version.  The Range
\* constructor raises on a text that is no range; satisfies answers false
\* there, and a build of the library that lets the error out is admitted too.
SemverSatisfies(v, range) ==
    IF range.malformed THEN {"false", "throw"}
    ELSE {IF RangeTest(range, v) THEN "true" ELSE "false"}

(***************************************************************************)
(* matcher.ts                                                              *)
(***************************************************************************)
\* isVersionVulnerable without its guards: neither the null check on the
\* cleaned version nor the catch.
isVersionVulnerableUnguarded(version, vulnerableRange) ==
    IF SemverClean(version) = Undefined THEN {"true"}
    ELSE SemverSatisfies(SemverClean(version), vulnerableRange)

\* The outcomes of isVersionVulnerable: "true", "false", or "throw".
isVersionVulnerableOutcomes(version, vulnerableRange) ==
    LET cleanVersion == SemverClean(version) IN
    IF cleanVersion = Undefined THEN {"false"}
    ELSE { IF o = "throw" THEN "false" ELSE o :
             o \in SemverSatisfies(cleanVersion, vulnerableRange) }

isVersionVulnerable(version, vulnerableRange) ==
    "true" \in isVersionVulnerableOutcomes(version, vulnerableRange)

\* [...fixedVersions].sort(semver.compare): a stable ascending sort.
RECURSIVE InsertSorted(_, _)
InsertSorted(sorted, x) ==
    IF sorted = <<>> THEN <<x>>
    ELSE IF SemverCompare(x, Head(sorted)) < 0 THEN <<x>> \o sorted
    ELSE <<Head(sorted)>> \o InsertSorted(Tail(sorted), x)

RECURSIVE SortVersions(_)
SortVersions(list) ==
    IF list = <<>> THEN <<>>
    ELSE InsertSorted(SortVersions(SubSeq(list, 1, Len(list) - 1)), list[Len(list)])

LastOrUndefined(list) == IF list = <<>> THEN Undefined ELSE list[Len(list)]

\* The loop of findFixedVersion over the sorted candidates, from index i on,
\* and the fallback after it.
RECURSIVE FixedLoop(_, _, _)
FixedLoop(sorted, i, cleanVersion) ==
    IF i > Len(sorted) THEN LastOrUndefined(sorted)
    ELSE LET fixed == sorted[i] IN
         IF fixed.major = cleanVersion.major /\ fixed.minor = cleanVersion.minor
           THEN fixed
         ELSE IF fixed.major = cleanVersion.major /\ fixed.minor > cleanVersion.minor
           THEN fixed
         ELSE FixedLoop(sorted, i + 1, cleanVersion)

Returned(value) == [threw |-> FALSE, value |-> value]
Thrown == [threw |-> TRUE, value |-> Undefined]

\* findFixedVersion whose loop takes the first candidate of the same major,
\* whatever its minor.
findFixedVersionAnyMinor(currentVersion, fixedVersions) ==
    LET cleanVersion == SemverClean(currentVersion)
        sameMajor == SelectSeq(SortVersions(fixedVersions),
                               LAMBDA f : f.major = cleanVersion.major)
    IN  IF cleanVersion = Undefined THEN Returned(LastOrUndefined(fixedVersions))
        ELSE IF \E i \in DOMAIN fixedVersions : ~IsSemver(fixedVersions[i]) THEN Thrown
        ELSE IF sameMajor # <<>> THEN Returned(Head(sameMajor))
        ELSE Returned(LastOrUndefined(SortVersions(fixedVersions)))

\* findFixedVersion that answers the cleaned current version when no
\* candidate of the same major qualifies.
findFixedVersionOwn(currentVersion, fixedVersions) ==
    LET cleanVersion == SemverClean(currentVersion) IN
    IF cleanVersion = Undefined THEN Returned(LastOrUndefined(fixedVersions))
    ELSE IF \E i \in DOMAIN fixedVersions : ~IsSemver(fixedVersions[i]) THEN Thrown
    ELSE LET r == FixedLoop(SortVersions(fixedVersions), 1, cleanVersion) IN
         IF r.major = cleanVersion.major THEN Returned(r) ELSE Returned(cleanVersion)

\* findFixedVersion: semver.compare and semver.major raise on a candidate that
\* is no version, which the function does not catch.
findFixedVersion(currentVersion, fixedVersions) ==
    LET cleanVersion == SemverClean(currentVersion) IN
    IF cleanVersion = Undefined THEN Returned(LastOrUndefined(fixedVersions))
    ELSE IF \E i \in DOMAIN fixedVersions : ~IsSemver(fixedVersions[i]) THEN Thrown
    ELSE Returned(FixedLoop(SortVersions(fixedVersions), 1, cleanVersion))

Finding(name, installedVersion, fixedVersion, rule) ==
    [package |-> name, currentVersion |-> installedVersion,
     fixedVersion |-> fixedVersion, severity |-> rule.severity,
     advisoryUrl |-> rule.advisoryUrl]

\* lockfile.packages[name]?.version
InstalledVersion(lockfile, name) ==
    IF name \in DOMAIN lockfile.packages THEN lockfile.packages[name].version
    ELSE Undefined

\* !installedVersion: undefined and the empty string are falsy.
IsFalsy(v) == v = Undefined \/ v.text = ""

\* One of the two loops of matchLockfileAgainstRule, from entry i on:
\* the findings pushed, or threw when findFixedVersion raised.
RECURSIVE MatchLoop(_, _, _, _)
MatchLoop(lockfile, rule, entries, i) ==
    IF i > Len(entries) THEN [threw |-> FALSE, findings |-> <<>>]
    ELSE LET e == entries[i]
             installedVersion == InstalledVersion(lockfile, e.name)
             rest == MatchLoop(lockfile, rule, entries, i + 1)
         IN  IF IsFalsy(installedVersion) THEN rest
             ELSE IF ~isVersionVulnerable(installedVersion, e.vulnerable) THEN rest
             ELSE LET f == findFixedVersion(installedVersion, e.fixed) IN
                  IF f.threw \/ rest.threw THEN [threw |-> TRUE, findings |-> <<>>]
                  ELSE [threw |-> FALSE,
                        findings |-> <<Finding(e.name, installedVersion, f.value, rule)>>
                                     \o rest.findings]

\* matchLockfileAgainstRule that tests the frameworks before the packages.
matchLockfileAgainstRuleSwapped(lockfile, rule) ==
    LET f == MatchLoop(lockfile, rule, rule.frameworks, 1)
        p == MatchLoop(lockfile, rule, rule.packages, 1)
    IN  IF p.threw \/ f.threw THEN [threw |-> TRUE, findings |-> <<>>]
        ELSE [threw |-> FALSE, findings |-> f.findings \o p.findings]

matchLockfileAgainstRule(lockfile, rule) ==
    LET p == MatchLoop(lockfile, rule, rule.packages, 1)
        f == MatchLoop(lockfile, rule, rule.frameworks, 1)
    IN  IF p.threw \/ f.threw THEN [threw |-> TRUE, findings |-> <<>>]
        ELSE [threw |-> FALSE, findings |-> p.findings \o f.findings]

(***************************************************************************)
(* The matcher's inputs.                                                   *)
(***************************************************************************)
SeqsUpTo(S, n) == UNION { [1..k -> S] : k \in 0..n }

Star == Range(<< <<>> >>)

Ranges ==
    {MalformedRange, Star}
    \cup { Range(<<Interval(V(ma, mi, 0), V(ma, mi, MaxPatch))>>) :
             ma \in 1..MaxMajor, mi \in 0..MaxMinor }
    \cup { Range(<<Interval(V(1, 0, 0), V(1, 0, MaxPatch)),
                   Interval(V(1, MaxMinor, 0), V(1, MaxMinor, MaxPatch))>>) }

VulnArgs ==
    [op : {"isVersionVulnerable"}, version : VersionStrings, range : Ranges]

CurrentVersions ==
    { V(ma, mi, 0) : ma \in 1..MaxMajor, mi \in 0..MaxMinor }
    \cup { VersionString("semver", "v", 1, 0, 0, FALSE),
           VersionString("semver", "", 1, 0, MaxPatch, TRUE) }
    \cup UnparseableStrings

FixedCandidates ==
    { V(ma, mi, MaxPatch) : ma \in {1, MaxMajor}, mi \in {0, MaxMinor} }
    \cup { V(1, 0, 0),
           VersionString("semver", "v", 1, MaxMinor, MaxPatch, FALSE),
           VersionString("invalid", "", 0, 0, 0, FALSE) }

FixedArgs ==
    [op : {"findFixedVersion"}, currentVersion : CurrentVersions,
     fixedVersions : SeqsUpTo(FixedCandidates, MaxFixed)]

RuleNames == {"react-server-dom-webpack", "next"}

RuleEntries ==
    [name : RuleNames,
     vulnerable : {Range(<<Interval(V(1, 1, 0), V(1, 1, MaxPatch))>>), MalformedRange},
     fixed : { <<V(1, 1, MaxPatch)>>, <<VersionString("invalid", "", 0, 0, 0, FALSE)>> }]

Rules ==
    { r \in [id : {"CVE-2025-55182"}, severity : {"critical", "high"},
             advisoryUrl : {"https://example.com"},
             packages : SeqsUpTo(RuleEntries, MaxRuleEntries),
             frameworks : SeqsUpTo(RuleEntries, MaxRuleEntries)] :
        Len(r.packages) + Len(r.frameworks) <= MaxRuleEntries }

\* The versions a resolved map records: in range with a leading "v", out of
\* range, empty, unparseable, or none at all.
LockVersions ==
    { VersionString("semver", "v", 1, 1, 0, FALSE), V(1, 1, MaxPatch),
      VersionString("", "", 0, 0, 0, FALSE),
      VersionString("invalid", "", 0, 0, 0, FALSE), Undefined }

LockEntries == [version : LockVersions]

\* The resolved maps over the rule's names; "lodash", which no rule names, is
\* always resolved, at a version inside the rules' ranges.
Lockfiles ==
    { [packages |-> m @@ ("lodash" :> [version |-> V(1, 1, 0)])] :
        m \in UNION { [D -> LockEntries] : D \in SUBSET RuleNames } }

MatchArgs == [op : {"matchLockfileAgainstRule"}, lockfile : Lockfiles, rule : Rules]

(***************************************************************************)
(* The matcher's operations as actions.                                    *)
(***************************************************************************)
InitMatcher ==
    /\ pc = "ready"
    /\ cachedRules = NoCache
    /\ fs = NoFs
    /\ ret = NoRet
    /\ \/ args \in VulnArgs
       \/ args \in FixedArgs
       \/ args \in MatchArgs

IsVersionVulnerable ==
    /\ pc = "ready"
    /\ args.op = "isVersionVulnerable"
    /\ \E o \in isVersionVulnerableOutcomes(args.version, args.range) :
          ret' = [outcome |-> o]
    /\ pc' = "done"
    /\ UNCHANGED <<args, fs, cachedRules>>

FindFixedVersion ==
    /\ pc = "ready"
    /\ args.op = "findFixedVersion"
    /\ ret' = findFixedVersion(args.currentVersion, args.fixedVersions)
    /\ pc' = "done"
    /\ UNCHANGED <<args, fs, cachedRules>>

MatchLockfileAgainstRule ==
    /\ pc = "ready"
    /\ args.op = "matchLockfileAgainstRule"
    /\ ret' = matchLockfileAgainstRule(args.lockfile, args.rule)
    /\ pc' = "done"
    /\ UNCHANGED <<args, fs, cachedRules>>

NextMatcher == IsVersionVulnerable \/ FindFixedVersion \/ MatchLockfileAgainstRule

SpecMatcher == InitMatcher /\ [][NextMatcher]_vars

Done(op) == pc = "done" /\ args.op = op

(***************************************************************************)
(* C1: matchLockfileAgainstRule returns one Finding for every entry of     *)
(* rule.packages followed by every entry of rule.frameworks whose name is  *)
(* a key of the resolved map and whose recorded version lies in the        *)
(* entry's vulnerable range, in that order, and no other Finding; each     *)
(* Finding carries the map's version as recorded and the rule's severity.  *)
(* (Checked on the calls that return: findFixedVersion raises on a fixed   *)
(* candidate that is no version.)                                          *)
(***************************************************************************)
LiesInRange(version, range) ==
    /\ IsSemver(version)
    /\ ~range.malformed
    /\ RangeTest(range, [version EXCEPT !.lead = ""])

ExpectedHits(lockfile, rule) ==
    SelectSeq(rule.packages \o rule.frameworks,
              LAMBDA e : /\ e.name \in DOMAIN lockfile.packages
                         /\ LiesInRange(lockfile.packages[e.name].version, e.vulnerable))

C1_MatchFindings ==
    (Done("matchLockfileAgainstRule") /\ ~ret.threw) =>
        LET hits == ExpectedHits(args.lockfile, args.rule) IN
        /\ Len(ret.findings) = Len(hits)
        /\ \A i \in DOMAIN hits :
              /\ ret.findings[i].package = hits[i].name
              /\ ret.findings[i].currentVersion
                    = args.lockfile.packages[hits[i].name].version
              /\ ret.findings[i].severity = args.rule.severity

\* A package entry and a framework entry both hit, a third name of the rule
\* being absent from the map or out of range.
C1_Witness ==
    /\ Done("matchLockfileAgainstRule")
    /\ ~ret.threw
    /\ Len(ret.findings) = 2
    /\ Len(args.rule.packages) = 1
    /\ Len(args.rule.frameworks) = 1
    /\ ret.findings[1].package = args.rule.packages[1].name
    /\ ret.findings[2].package = args.rule.frameworks[1].name
    /\ ret.findings[1].package # ret.findings[2].package
    /\ ret.findings[1].currentVersion.lead = "v"

(***************************************************************************)
(* C2: for a parseable current version and a non-empty list of fixed       *)
(* versions, findFixedVersion selects (a) a candidate with the current     *)
(* major and minor if one exists; otherwise (b) the smallest candidate     *)
(* with the same major and a greater minor if one exists; otherwise (c)    *)
(* the greatest candidate of the list.                                     *)
(***************************************************************************)
C2_FixedSelection ==
    LET cur == args.currentVersion
        fixed == args.fixedVersions
        sameLine == { i \in DOMAIN fixed :
                        fixed[i].major = cur.major /\ fixed[i].minor = cur.minor }
        higher == { i \in DOMAIN fixed :
                        fixed[i].major = cur.major /\ fixed[i].minor > cur.minor }
    IN  (/\ Done("findFixedVersion")
         /\ IsSemver(cur)
         /\ fixed # <<>>
         /\ \A i \in DOMAIN fixed : IsSemver(fixed[i]))
        => /\ ~ret.threw
           /\ IF sameLine # {}
                THEN \E i \in sameLine : ret.value = fixed[i]
              ELSE IF higher # {}
                THEN \E i \in higher :
                        /\ ret.value = fixed[i]
                        /\ \A j \in higher : SemverCompare(fixed[i], fixed[j]) <= 0
              ELSE \E i \in DOMAIN fixed :
                        /\ ret.value = fixed[i]
                        /\ \A j \in DOMAIN fixed : SemverCompare(fixed[j], fixed[i]) <= 0

\* Case (b) with a candidate of a lower minor and one of another major in an
\* unsorted list.
C2_Witness ==
    /\ Done("findFixedVersion")
    /\ args.currentVersion = V(1, 1, 0)
    /\ Len(args.fixedVersions) = 3
    /\ args.fixedVersions[1] = V(MaxMajor, 0, MaxPatch)
    /\ args.fixedVersions[2] = V(1, MaxMinor, MaxPatch)
    /\ args.fixedVersions[3] = V(1, 0, MaxPatch)
    /\ ret.value = V(1, MaxMinor, MaxPatch)

(***************************************************************************)
(* C3 as stated: for every current-version string and every fixed-version  *)
(* list, the value findFixedVersion returns is an element of the list.     *)
(***************************************************************************)
C3_Original ==
    (Done("findFixedVersion") /\ ~ret.threw) =>
        \E i \in DOMAIN args.fixedVersions : ret.value = args.fixedVersions[i]

(***************************************************************************)
(* C3 amended: for every current-version string (parseable or not) and     *)
(* every non-empty fixed-version list, the value findFixedVersion returns  *)
(* is an element of the list.                                              *)
(***************************************************************************)
C3_FixedIsMember ==
    (Done("findFixedVersion") /\ ~ret.threw /\ args.fixedVersions # <<>>) =>
        \E i \in DOMAIN args.fixedVersions : ret.value = args.fixedVersions[i]

\* An unparseable current version and a list no candidate of which shares
\* its line: the fallback answers.
C3_Witness ==
    /\ Done("findFixedVersion")
    /\ ~IsSemver(args.currentVersion)
    /\ Len(args.fixedVersions) = 2
    /\ ~ret.threw
    /\ ret.value = args.fixedVersions[2]

(***************************************************************************)
(* C4: isVersionVulnerable never throws, and it returns false whenever the *)
(* version is not parseable or the range is malformed.                     *)
(***************************************************************************)
C4_NeverThrows ==
    Done("isVersionVulnerable") =>
        /\ ret.outcome \in {"true", "false"}
        /\ (~IsSemver(args.version) \/ args.range.malformed) => ret.outcome = "false"

\* A parseable version tested against a malformed range.
C4_Witness ==
    /\ Done("isVersionVulnerable")
    /\ IsSemver(args.version)
    /\ args.range.malformed
    /\ ret.outcome = "false"

(***************************************************************************)
(* The filesystem.  A directory is a path (a sequence of segments) with    *)
(* its manifest, its three lockfiles and its workspace configuration       *)
(* files.  A file is missing or present with a size and a content; the     *)
(* content is classed by what the parsers' readers do with it:             *)
(*   "unreadable"  reading raises (a directory, no permission)             *)
(*   "garbage"     text that is neither JSON nor YAML (a syntax error)     *)
(*   "nullDoc"     parses to null / undefined (JSON null, an empty YAML)   *)
(*   "scalarDoc"   parses to a value with no lockfile keys (42, [], {})    *)
(*   "valid"       a lockfile, recording the resolved map `map`            *)
(***************************************************************************)
MAX_LOCKFILE_SIZE == 100 * 1024 * 1024

EmptyMap == [n \in {} |-> [version |-> Undefined]]

MissingFile == [exists |-> FALSE, size |-> 0, content |-> "none", map |-> EmptyMap]

PresentFile(size, content, map) ==
    [exists |-> TRUE, size |-> size, content |-> content, map |-> map]

MalformedContents == {"garbage", "nullDoc", "scalarDoc"}

\* The rules directory (RULES_DIR): readable or not, and its files in the order
\* readdirSync lists them.  A file is classed by what loadRules does with it:
\*   "other"    its name does not end in .json (skipped)
\*   "garbage"  JSON.parse raises, or the document is null (rule.id raises)
\*   "invalid"  a document without id or without a packages array
\*   "rule"     a rule document, recording the rule
RuleFile(kind, rule) == [kind |-> kind, rule |-> rule]
RulesDir(readable, files) == [readable |-> readable, files |-> files]
EmptyRulesDir == RulesDir(TRUE, <<>>)

\* ParsedLockfile | null
Parsed(map) == [present |-> TRUE, packages |-> map]
Null == [present |-> FALSE, packages |-> EmptyMap]

\* What a parser did: its result, whether an exception left it, and whether it
\* called readFileSync on the lockfile.
ParserRun(result, read) == [result |-> result, threw |-> FALSE, read |-> read]

\* JSON.parse / yaml.load followed by the walk over the document, inside the
\* parser's try block.
ParseDocument(file) ==
    CASE file.content = "unreadable" -> Null  \* readFileSync raised, caught
      [] file.content = "garbage"    -> Null  \* the syntax error, caught
      [] file.content = "nullDoc"    -> Null  \* TypeError on lockfile.packages, caught
      [] file.content = "scalarDoc"  -> Parsed(EmptyMap)
      [] OTHER                       -> Parsed(file.map)

\* parseNpmLockfile without the size check.
parseNpmLockfileNoGuard(file) ==
    IF ~file.exists THEN ParserRun(Null, FALSE)
    ELSE ParserRun(ParseDocument(file), TRUE)

parseNpmLockfile(file) ==
    IF ~file.exists THEN ParserRun(Null, FALSE)
    ELSE IF file.size > MAX_LOCKFILE_SIZE THEN ParserRun(Null, FALSE)
    ELSE ParserRun(ParseDocument(file), TRUE)

parsePnpmLockfile(file) ==
    IF ~file.exists THEN ParserRun(Null, FALSE)
    ELSE IF file.size > MAX_LOCKFILE_SIZE THEN ParserRun(Null, FALSE)
    ELSE ParserRun(ParseDocument(file), TRUE)

\* parseYarnClassic / parseYarnBerry: line scanners that accept any text; a
\* text with no entry yields the empty map.
ParseYarnText(file) ==
    CASE file.content = "unreadable" -> Null  \* readFileSync raised, caught
      [] file.content = "valid"      -> Parsed(file.map)
      [] OTHER                       -> Parsed(EmptyMap)

\* parseYarnLockfile has no size check.
parseYarnLockfile(file) ==
    IF ~file.exists THEN ParserRun(Null, FALSE)
    ELSE ParserRun(ParseYarnText(file), TRUE)

(***************************************************************************)
(* scanner.ts: parseLockfile.  `consulted` lists the parsers called, in    *)
(* call order.                                                             *)
(***************************************************************************)
LockfileRun(result, consulted) == [result |-> result, consulted |-> consulted]

\* parseLockfile trying yarn before pnpm.
parseLockfileYarnFirst(dir) ==
    LET npmLockfile == parseNpmLockfile(dir.npm).result
        pnpmLockfile == parsePnpmLockfile(dir.pnpm).result
        yarnLockfile == parseYarnLockfile(dir.yarn).result
    IN  IF npmLockfile.present THEN LockfileRun(npmLockfile, <<"npm">>)
        ELSE IF yarnLockfile.present THEN LockfileRun(yarnLockfile, <<"npm", "yarn">>)
        ELSE LockfileRun(pnpmLockfile, <<"npm", "yarn", "pnpm">>)

parseLockfile(dir) ==
    LET npmLockfile == parseNpmLockfile(dir.npm).result
        pnpmLockfile == parsePnpmLockfile(dir.pnpm).result
        yarnLockfile == parseYarnLockfile(dir.yarn).result
    IN  IF npmLockfile.present THEN LockfileRun(npmLockfile, <<"npm">>)
        ELSE IF pnpmLockfile.present THEN LockfileRun(pnpmLockfile, <<"npm", "pnpm">>)
        ELSE IF yarnLockfile.present
               THEN LockfileRun(yarnLockfile, <<"npm", "pnpm", "yarn">>)
        ELSE LockfileRun(Null, <<"npm", "pnpm", "yarn">>)

(***************************************************************************)
(* Directories.  A manifest (package.json) is missing, unparseable, or     *)
(* valid with an optional name and an optional `workspaces` declaration.   *)
(* A workspace configuration file (pnpm-workspace.yaml, lerna.json) is     *)
(* missing, unparseable, valid without a `packages` array, or valid with   *)
(* one.                                                                    *)
(***************************************************************************)
NoPatterns == [declared |-> FALSE, patterns |-> <<>>]
Declared(patterns) == [declared |-> TRUE, patterns |-> patterns]

MissingManifest ==
    [exists |-> FALSE, content |-> "none", name |-> "", workspaces |-> NoPatterns]
GarbageManifest ==
    [exists |-> TRUE, content |-> "garbage", name |-> "", workspaces |-> NoPatterns]
Manifest(name, workspaces) ==
    [exists |-> TRUE, content |-> "valid", name |-> name, workspaces |-> workspaces]

MissingConfig == [exists |-> FALSE, content |-> "none", packages |-> NoPatterns]
GarbageConfig == [exists |-> TRUE, content |-> "garbage", packages |-> NoPatterns]
Config(packages) == [exists |-> TRUE, content |-> "valid", packages |-> packages]

Dir(manifest, npm, pnpm, yarn, pnpmWorkspace, lerna) ==
    [manifest |-> manifest, npm |-> npm, pnpm |-> pnpm, yarn |-> yarn,
     pnpmWorkspace |-> pnpmWorkspace, lerna |-> lerna]

\* A directory holding nothing the core reads.
BareDir == Dir(MissingManifest, MissingFile, MissingFile, MissingFile,
               MissingConfig, MissingConfig)

\* existsSync(path) for a directory, and the directory's record.
DirExists(f, path) == path \in DOMAIN f.dirs
DirAt(f, path) == IF DirExists(f, path) THEN f.dirs[path] ELSE BareDir

(***************************************************************************)
(* Paths are sequences of segments from the filesystem root.               *)
(***************************************************************************)
IsPrefix(p, q) == Len(p) <= Len(q) /\ SubSeq(q, 1, Len(p)) = p

RECURSIVE CommonPrefixLen(_, _)
CommonPrefixLen(p, q) ==
    IF p = <<>> \/ q = <<>> \/ Head(p) # Head(q) THEN 0
    ELSE 1 + CommonPrefixLen(Tail(p), Tail(q))

\* path.relative(from, to): one ".." for each segment of `from` below the
\* common ancestor, then the rest of `to`.
Relative(from, to) ==
    LET k == CommonPrefixLen(from, to) IN
    [i \in 1..(Len(from) - k) |-> ".."] \o SubSeq(to, k + 1, Len(to))

\* path.dirname
Dirname(path) == SubSeq(path, 1, Len(path) - 1)

\* path.basename
Basename(path) == IF path = <<>> THEN "" ELSE path[Len(path)]

\* Lexical normalisation of "." and ".." segments, as path.resolve does.
RECURSIVE Normalize(_, _)
Normalize(done, rest) ==
    IF rest = <<>> THEN done
    ELSE IF Head(rest) = "." THEN Normalize(done, Tail(rest))
    ELSE IF Head(rest) = ".."
      THEN Normalize(IF done = <<>> THEN <<>> ELSE Dirname(done), Tail(rest))
    ELSE Normalize(Append(done, Head(rest)), Tail(rest))

(***************************************************************************)
(* workspace.ts                                                            *)
(***************************************************************************)
\* A glob pattern: a leading "!" (neg), a leading "/" (abs) and its segments.
Pattern(neg, abs, segs) == [neg |-> neg, abs |-> abs, segs |-> segs]

\* An element of a declared pattern array that is no string (a JSON number,
\* null, an object): the configuration readers return the array as parsed,
\* without looking at its elements.
NotAString == [neg |-> FALSE, abs |-> FALSE, segs |-> <<>>, number |-> 42]

IsString(pattern) == "number" \notin DOMAIN pattern

\* pattern.includes('..'); no segment of the model's patterns holds ".." as a
\* proper part.
IncludesDotDot(pattern) == \E i \in DOMAIN pattern.segs : pattern.segs[i] = ".."

EndsWith(pattern, seg) ==
    /\ pattern.segs # <<>>
    /\ pattern.segs[Len(pattern.segs)] = seg
    /\ (Len(pattern.segs) >= 2 \/ pattern.abs)

NormalizePattern(pattern) ==
    IF EndsWith(pattern, "package.json") THEN pattern
    ELSE IF EndsWith(pattern, "*")
      THEN [pattern EXCEPT !.segs =
                SubSeq(pattern.segs, 1, Len(pattern.segs) - 1) \o <<"*", "package.json">>]
    ELSE [pattern EXCEPT !.segs = Append(pattern.segs, "package.json")]

\* The files glob can see: the manifests of the filesystem.
ManifestFiles(f) ==
    { Append(d, "package.json") : d \in { x \in DOMAIN f.dirs : f.dirs[x].manifest.exists } }

RECURSIVE SegsMatch(_, _)
SegsMatch(pat, path) ==
    IF pat = <<>> \/ path = <<>> THEN pat = <<>> /\ path = <<>>
    ELSE /\ (Head(pat) = "*" \/ Head(pat) = Head(path))
         /\ SegsMatch(Tail(pat), Tail(path))

\* glob.sync(pattern, {cwd, absolute: true, onlyFiles: true,
\* ignore: ['**/node_modules/**']}): the absolute paths of the files the
\* pattern names, relative patterns being taken from cwd.
GlobSync(f, cwd, pattern) ==
    LET target == Normalize(IF pattern.abs THEN <<>> ELSE cwd, pattern.segs) IN
    { file \in ManifestFiles(f) :
        /\ SegsMatch(target, file)
        /\ \A i \in 1..(Len(file) - 1) : file[i] # "node_modules" }

\* isPathWithinRoot that accepts every path.
isPathWithinRootAlways(rootPath, targetPath) == TRUE

\* rel.startsWith('..') and rel.startsWith('/'): path.relative never answers
\* an absolute path here.
isPathWithinRoot(rootPath, targetPath) ==
    LET rel == Relative(rootPath, targetPath) IN
    ~(rel # <<>> /\ Head(rel) = "..")

\* A fixed enumeration of a set of paths (the order glob lists its matches).
RECURSIVE SetToSeq(_)
SetToSeq(S) ==
    IF S = {} THEN <<>>
    ELSE LET x == CHOOSE y \in S : TRUE IN <<x>> \o SetToSeq(S \ {x})

\* [...new Set(resolved)]
RECURSIVE Dedup(_, _)
Dedup(list, seen) ==
    IF list = <<>> THEN <<>>
    ELSE IF Head(list) \in seen THEN Dedup(Tail(list), seen)
    ELSE <<Head(list)>> \o Dedup(Tail(list), seen \cup {Head(list)})

\* One iteration of the loop of resolvePatterns: whether the pattern was
\* handed to glob, and the directories pushed for it.
PatternStep(pattern, globbed, pushed) ==
    [pattern |-> pattern, globbed |-> globbed, pushed |-> pushed]

\* The iteration without the '..' pre-filter.
ResolveOneNoFilter(f, rootPath, pattern) ==
    IF pattern.neg THEN PatternStep(pattern, FALSE, <<>>)
    ELSE PatternStep(pattern, TRUE,
            SelectSeq(SetToSeq({ Dirname(m) : m \in GlobSync(f, rootPath, NormalizePattern(pattern)) }),
                      LAMBDA pkgDir : isPathWithinRoot(rootPath, pkgDir)))

ResolveOne(f, rootPath, pattern) ==
    IF pattern.neg THEN PatternStep(pattern, FALSE, <<>>)
    ELSE IF IncludesDotDot(pattern) THEN PatternStep(pattern, FALSE, <<>>)
    ELSE PatternStep(pattern, TRUE,
            SelectSeq(SetToSeq({ Dirname(m) : m \in GlobSync(f, rootPath, NormalizePattern(pattern)) }),
                      LAMBDA pkgDir : isPathWithinRoot(rootPath, pkgDir)))

RECURSIVE Flatten(_)
Flatten(lists) == IF lists = <<>> THEN <<>> ELSE Head(lists) \o Flatten(Tail(lists))

\* The position of the first element that is no string, 0 when all are.
FirstNonString(patterns) ==
    LET bad == { i \in DOMAIN patterns : ~IsString(patterns[i]) } IN
    IF bad = {} THEN 0 ELSE CHOOSE i \in bad : \A j \in bad : i <= j

\* resolvePatterns: the steps taken, and the deduplicated directories.
\* pattern.startsWith('!') is called outside the try block: on an element
\* that is no string it raises a TypeError that leaves the function.
resolvePatterns(f, rootPath, patterns) ==
    LET k == FirstNonString(patterns)
        reached == IF k = 0 THEN Len(patterns) ELSE k - 1
        steps == [i \in 1..reached |-> ResolveOne(f, rootPath, patterns[i])]
    IN  [steps |-> steps,
         packages |-> IF k = 0
                        THEN Dedup(Flatten([i \in DOMAIN steps |-> steps[i].pushed]), {})
                        ELSE <<>>,
         threw |-> k # 0]

\* string[] | null
NoList == [found |-> FALSE, patterns |-> <<>>]
List(patterns) == [found |-> TRUE, patterns |-> patterns]

detectNpmWorkspaces(f, rootPath) ==
    LET m == DirAt(f, rootPath).manifest IN
    IF ~m.exists THEN NoList
    ELSE IF m.content # "valid" THEN NoList
    ELSE IF m.workspaces.declared THEN List(m.workspaces.patterns)
    ELSE NoList

detectPnpmWorkspaces(f, rootPath) ==
    LET c == DirAt(f, rootPath).pnpmWorkspace IN
    IF ~c.exists THEN NoList
    ELSE IF c.content # "valid" THEN NoList
    ELSE IF c.packages.declared THEN List(c.packages.patterns)
    ELSE NoList

detectLernaWorkspaces(f, rootPath) ==
    LET c == DirAt(f, rootPath).lerna IN
    IF ~c.exists THEN NoList
    ELSE IF c.content # "valid" THEN NoList
    ELSE IF c.packages.declared THEN List(c.packages.patterns)
    ELSE List(<<Pattern(FALSE, FALSE, <<"packages", "*">>)>>)

\* WorkspaceInfo; `steps` keeps the iterations of resolvePatterns and `threw`
\* records that resolvePatterns raised, in which case detectWorkspace raises
\* and no WorkspaceInfo is returned.
WorkspaceInfo(type, rootPath, patterns, resolved) ==
    [type |-> type, rootPath |-> rootPath, patterns |-> patterns,
     packages |-> resolved.packages, steps |-> resolved.steps,
     threw |-> resolved.threw]

\* detectWorkspace asking the manifest before lerna.json.
detectWorkspaceManifestFirst(f, rootPath) ==
    LET pnpmPatterns == detectPnpmWorkspaces(f, rootPath)
        lernaPatterns == detectLernaWorkspaces(f, rootPath)
        npmPatterns == detectNpmWorkspaces(f, rootPath)
        isYarn == DirAt(f, rootPath).yarn.exists
    IN  IF pnpmPatterns.found
          THEN WorkspaceInfo("pnpm", rootPath, pnpmPatterns.patterns,
                             resolvePatterns(f, rootPath, pnpmPatterns.patterns))
        ELSE IF npmPatterns.found
          THEN WorkspaceInfo(IF isYarn THEN "yarn" ELSE "npm", rootPath,
                             npmPatterns.patterns,
                             resolvePatterns(f, rootPath, npmPatterns.patterns))
        ELSE IF lernaPatterns.found
          THEN WorkspaceInfo("lerna", rootPath, lernaPatterns.patterns,
                             resolvePatterns(f, rootPath, lernaPatterns.patterns))
        ELSE WorkspaceInfo("none", rootPath, <<>>, [steps |-> <<>>, packages |-> <<>>, threw |-> FALSE])

detectWorkspace(f, rootPath) ==
    LET pnpmPatterns == detectPnpmWorkspaces(f, rootPath)
        lernaPatterns == detectLernaWorkspaces(f, rootPath)
        npmPatterns == detectNpmWorkspaces(f, rootPath)
        isYarn == DirAt(f, rootPath).yarn.exists
    IN  IF pnpmPatterns.found
          THEN WorkspaceInfo("pnpm", rootPath, pnpmPatterns.patterns,
                             resolvePatterns(f, rootPath, pnpmPatterns.patterns))
        ELSE IF lernaPatterns.found
          THEN WorkspaceInfo("lerna", rootPath, lernaPatterns.patterns,
                             resolvePatterns(f, rootPath, lernaPatterns.patterns))
        ELSE IF npmPatterns.found
          THEN WorkspaceInfo(IF isYarn THEN "yarn" ELSE "npm", rootPath,
                             npmPatterns.patterns,
                             resolvePatterns(f, rootPath, npmPatterns.patterns))
        ELSE WorkspaceInfo("none", rootPath, <<>>, [steps |-> <<>>, packages |-> <<>>, threw |-> FALSE])

isWorkspacePackage(projectPath, workspace) ==
    /\ workspace.type # "none"
    /\ \E i \in DOMAIN workspace.packages : workspace.packages[i] = projectPath

(***************************************************************************)
(* The parsers' inputs: one project directory, each of its three lockfiles *)
(* missing or present in every size class and content class.               *)
(***************************************************************************)
Root == <<"home", "repo">>

FileSizes == {1024, MAX_LOCKFILE_SIZE, MAX_LOCKFILE_SIZE + 1}

\* Resolved maps: one holding a version inside the rule's range, one holding
\* the fixed version.
VulnerableMap ==
    ("next" :> [version |-> V(1, 1, 0)]) @@ ("lodash" :> [version |-> V(1, 1, 0)])
PatchedMap == ("next" :> [version |-> V(1, 1, MaxPatch)])

LockfileFiles ==
    {MissingFile}
    \cup { PresentFile(sz, c, EmptyMap) :
             sz \in FileSizes, c \in MalformedContents \cup {"unreadable"} }
    \cup { PresentFile(sz, "valid", m) :
             sz \in FileSizes, m \in {VulnerableMap, PatchedMap} }

ParserOps == {"parseNpmLockfile", "parsePnpmLockfile", "parseYarnLockfile", "parseLockfile"}

InitParsers ==
    /\ pc = "ready"
    /\ cachedRules = NoCache
    /\ ret = NoRet
    /\ args \in [op : ParserOps, dir : {Root}]
    /\ \E npm \in LockfileFiles, pnpm \in LockfileFiles, yarn \in LockfileFiles :
          fs = [dirs |-> (Root :> Dir(Manifest("app", NoPatterns), npm, pnpm, yarn,
                                      MissingConfig, MissingConfig)),
                rules |-> EmptyRulesDir]

ParseNpmLockfile ==
    /\ pc = "ready"
    /\ args.op = "parseNpmLockfile"
    /\ ret' = parseNpmLockfile(DirAt(fs, args.dir).npm)
    /\ pc' = "done"
    /\ UNCHANGED <<args, fs, cachedRules>>

ParsePnpmLockfile ==
    /\ pc = "ready"
    /\ args.op = "parsePnpmLockfile"
    /\ ret' = parsePnpmLockfile(DirAt(fs, args.dir).pnpm)
    /\ pc' = "done"
    /\ UNCHANGED <<args, fs, cachedRules>>

ParseYarnLockfile ==
    /\ pc = "ready"
    /\ args.op = "parseYarnLockfile"
    /\ ret' = parseYarnLockfile(DirAt(fs, args.dir).yarn)
    /\ pc' = "done"
    /\ UNCHANGED <<args, fs, cachedRules>>

ParseLockfile ==
    /\ pc = "ready"
    /\ args.op = "parseLockfile"
    /\ ret' = parseLockfile(DirAt(fs, args.dir))
    /\ pc' = "done"
    /\ UNCHANGED <<args, fs, cachedRules>>

NextParsers == ParseNpmLockfile \/ ParsePnpmLockfile \/ ParseYarnLockfile \/ ParseLockfile

SpecParsers == InitParsers /\ [][NextParsers]_vars

\* The lockfile a single-parser operation was called on.
ParserFile ==
    CASE args.op = "parseNpmLockfile"  -> DirAt(fs, args.dir).npm
      [] args.op = "parsePnpmLockfile" -> DirAt(fs, args.dir).pnpm
      [] OTHER                         -> DirAt(fs, args.dir).yarn

SingleParserDone ==
    /\ pc = "done"
    /\ args.op \in {"parseNpmLockfile", "parsePnpmLockfile", "parseYarnLockfile"}

(***************************************************************************)
(* C5: parseLockfile tries the parsers in the order npm, pnpm, yarn; its   *)
(* result is that of the first parser that succeeds, and a later parser is *)
(* consulted only when every earlier one returned not-present.             *)
(***************************************************************************)
ParserResult(name, dir) ==
    CASE name = "npm"  -> parseNpmLockfile(dir.npm).result
      [] name = "pnpm" -> parsePnpmLockfile(dir.pnpm).result
      [] OTHER         -> parseYarnLockfile(dir.yarn).result

C5_ParserPriority ==
    Done("parseLockfile") =>
        LET dir == DirAt(fs, args.dir)
            order == <<"npm", "pnpm", "yarn">>
            n == Len(ret.consulted)
        IN  /\ n \in 1..3
            /\ ret.consulted = SubSeq(order, 1, n)
            /\ \A i \in 1..(n - 1) : ~ParserResult(order[i], dir).present
            /\ ret.result = ParserResult(order[n], dir)
            /\ n < 3 => ret.result.present

\* npm not present, pnpm and yarn both parseable with different maps: pnpm's
\* map is used and yarn is not consulted.
C5_Witness ==
    /\ Done("parseLockfile")
    /\ ~DirAt(fs, args.dir).npm.exists
    /\ DirAt(fs, args.dir).pnpm = PresentFile(1024, "valid", PatchedMap)
    /\ DirAt(fs, args.dir).yarn = PresentFile(1024, "valid", VulnerableMap)
    /\ ret.result = Parsed(PatchedMap)
    /\ ret.consulted = <<"npm", "pnpm">>

(***************************************************************************)
(* C9: for each of the three parsers, a lockfile larger than 100 MB makes  *)
(* the parser return null as for a missing file, without throwing and      *)
(* without reading the file.                                               *)
(***************************************************************************)
C9_OversizedIsAbsent ==
    (SingleParserDone /\ ParserFile.exists /\ ParserFile.size > MAX_LOCKFILE_SIZE) =>
        /\ ~ret.threw
        /\ ~ret.result.present
        /\ ~ret.read

(***************************************************************************)
(* C10: each parser, given a lockfile that exists but has malformed        *)
(* content, never throws and returns null rather than a map.               *)
(***************************************************************************)
C10_MalformedIsAbsent ==
    (SingleParserDone /\ ParserFile.exists /\ ParserFile.content \in MalformedContents) =>
        /\ ~ret.threw
        /\ ~ret.result.present

(***************************************************************************)
(* The workspace resolver's inputs: the root, with each of its three       *)
(* pattern sources absent or declaring the same drawn pattern list, and    *)
(* the candidate package directories, inside and outside the root.         *)
(***************************************************************************)
PkgA == Root \o <<"packages", "a">>
PkgB == Root \o <<"packages", "b">>
PkgModules == Root \o <<"packages", "node_modules">>
Outside == <<"etc", "x">>

CandidateDirs == {PkgA, PkgB, PkgModules, Outside}

WsPatterns ==
    { Pattern(FALSE, FALSE, <<"packages", "*">>),
      Pattern(FALSE, FALSE, <<"packages", "a">>),
      Pattern(FALSE, FALSE, <<"packages", "a", "package.json">>),
      Pattern(FALSE, FALSE, <<"..", "..", "etc", "*">>),
      Pattern(FALSE, FALSE, <<"packages", "..", "packages", "b">>),
      Pattern(TRUE, FALSE, <<"packages", "b">>),
      Pattern(FALSE, TRUE, <<"etc", "*">>),
      Pattern(FALSE, FALSE, <<".">>) }

PatternLists == SeqsUpTo(WsPatterns, MaxPatterns)

\* The directories that exist whatever is drawn.
Skeleton == (Root \o <<"packages">> :> BareDir) @@ (<<"etc">> :> BareDir)

PackageDir(name) ==
    Dir(Manifest(name, NoPatterns), MissingFile, MissingFile, MissingFile,
        MissingConfig, MissingConfig)

InitWorkspace ==
    /\ pc = "ready"
    /\ cachedRules = NoCache
    /\ ret = NoRet
    /\ args = [op |-> "detectWorkspace", rootPath |-> Root]
    /\ \E P \in PatternLists, present \in SUBSET CandidateDirs :
       \E ws \in {NoPatterns, Declared(P)},
          pnpmWs \in {MissingConfig, GarbageConfig, Config(Declared(P))},
          lerna \in {MissingConfig, Config(NoPatterns), Config(Declared(P))},
          yarn \in {MissingFile, PresentFile(1024, "valid", PatchedMap)} :
          fs = [dirs |-> (Root :> Dir(Manifest("root", ws), MissingFile, MissingFile,
                                      yarn, pnpmWs, lerna))
                         @@ [d \in present |-> PackageDir(Basename(d))]
                         @@ Skeleton,
                rules |-> EmptyRulesDir]

DetectWorkspace ==
    /\ pc = "ready"
    /\ args.op = "detectWorkspace"
    /\ ret' = detectWorkspace(fs, args.rootPath)
    /\ pc' = "done"
    /\ UNCHANGED <<args, fs, cachedRules>>

NextWorkspace == DetectWorkspace

SpecWorkspace == InitWorkspace /\ [][NextWorkspace]_vars

Range_(seq) == { seq[i] : i \in DOMAIN seq }

(***************************************************************************)
(* C7: every entry of WorkspaceInfo.packages is lexically contained within *)
(* rootPath: the root is a prefix of it, so its path relative to the root  *)
(* neither starts with ".." nor is absolute.                               *)
(***************************************************************************)
C7_PackagesWithinRoot ==
    Done("detectWorkspace") =>
        \A i \in DOMAIN ret.packages : IsPrefix(args.rootPath, ret.packages[i])

\* An absolute pattern names a manifest outside the root, next to a pattern
\* that resolves inside it.
C7_Witness ==
    /\ Done("detectWorkspace")
    /\ Pattern(FALSE, TRUE, <<"etc", "*">>) \in Range_(ret.patterns)
    /\ DirExists(fs, Outside)
    /\ ret.packages = <<PkgA>>

(***************************************************************************)
(* C8: a pattern that contains ".." is rejected before glob evaluation and *)
(* contributes no entry to WorkspaceInfo.packages, whatever the filesystem *)
(* contains; the other (non-negated) patterns of the declaration are still *)
(* handed to glob and their matches inside the root resolved.              *)
(***************************************************************************)
C8_DotDotRejected ==
    Done("detectWorkspace") =>
        /\ Len(ret.steps) = Len(ret.patterns)
        /\ \A i \in DOMAIN ret.steps :
              LET st == ret.steps[i] IN
              /\ st.pattern = ret.patterns[i]
              /\ IncludesDotDot(st.pattern) => (~st.globbed /\ st.pushed = <<>>)
              /\ (~IncludesDotDot(st.pattern) /\ ~st.pattern.neg) =>
                    /\ st.globbed
                    /\ Range_(st.pushed) =
                          { Dirname(m) : m \in
                              { g \in GlobSync(fs, args.rootPath, NormalizePattern(st.pattern)) :
                                  IsPrefix(args.rootPath, g) } }
        /\ Range_(ret.packages) = UNION { Range_(ret.steps[i].pushed) : i \in DOMAIN ret.steps }

\* "../../etc/*" declared next to "packages/*", with a manifest in /etc/x and
\* one in packages/a: only the latter is resolved.
C8_Witness ==
    /\ Done("detectWorkspace")
    /\ ret.patterns = << Pattern(FALSE, FALSE, <<"..", "..", "etc", "*">>),
                         Pattern(FALSE, FALSE, <<"packages", "*">>) >>
    /\ DirExists(fs, Outside)
    /\ DirExists(fs, PkgA)
    /\ PkgA \in Range_(ret.packages)
    /\ ~ret.steps[1].globbed

(***************************************************************************)
(* parsers/package-json.ts, rules.ts and the framework classifier, as the  *)
(* scanner uses them.                                                      *)
(***************************************************************************)
\* parsePackageJson: null for a missing or unparseable manifest.
parsePackageJson(f, dir) ==
    LET m == DirAt(f, dir).manifest IN
    IF ~m.exists THEN [present |-> FALSE, name |-> ""]
    ELSE IF m.content # "valid" THEN [present |-> FALSE, name |-> ""]
    ELSE [present |-> TRUE, name |-> m.name]

PrimaryId == "CVE-2025-55182"

\* getRule(cveId) over the loaded rules: the first rule of that id.
RECURSIVE getRule(_, _)
getRule(rules, cveId) ==
    IF rules = <<>> THEN [found |-> FALSE, rule |-> [id |-> ""]]
    ELSE IF Head(rules).id = cveId THEN [found |-> TRUE, rule |-> Head(rules)]
    ELSE getRule(Tail(rules), cveId)

\* The loop of loadRules over the directory's files: the rules pushed, and
\* whether an exception ended the loop (the catch block was entered).
RECURSIVE ReadRuleFiles(_, _)
ReadRuleFiles(files, rules) ==
    IF files = <<>> THEN [rules |-> rules, failed |-> FALSE]
    ELSE CASE Head(files).kind = "other"   -> ReadRuleFiles(Tail(files), rules)
           [] Head(files).kind = "garbage" -> [rules |-> rules, failed |-> TRUE]
           [] Head(files).kind = "invalid" -> ReadRuleFiles(Tail(files), rules)
           [] OTHER -> ReadRuleFiles(Tail(files), Append(rules, Head(files).rule))

\* What a call of loadRules did: the list it returned, the cache it left,
\* whether it read the rules directory and whether that load failed.
RuleLoad(rules, cache, read, failed) ==
    [rules |-> rules, cache |-> cache, read |-> read, failed |-> failed]

\* loadRules: `if (cachedRules)` holds for every array, the empty one too;
\* `cachedRules = rules` follows the try/catch on both of its paths.
loadRules(f, cache) ==
    IF cache.populated THEN RuleLoad(cache.rules, cache, FALSE, FALSE)
    ELSE LET r == IF ~f.rules.readable THEN [rules |-> <<>>, failed |-> TRUE]
                  ELSE ReadRuleFiles(f.rules.files, <<>>)
         IN  RuleLoad(r.rules, Cached(r.rules), TRUE, r.failed)

\* getPrimaryRule raises (found = FALSE) when no loaded rule has the primary id.
getPrimaryRule(f, cache) == getRule(loadRules(f, cache).rules, PrimaryId)

\* detectFramework: a classification by the resolved packages, attached to the
\* project result and read by no other step.
detectFramework(lockfile) ==
    IF "next" \in DOMAIN lockfile.packages THEN "nextjs"
    ELSE IF "react-server-dom-webpack" \in DOMAIN lockfile.packages THEN "react-rsc"
    ELSE "unknown"

(***************************************************************************)
(* parsers/sbom-cyclonedx.ts.  A name is a text written as a sequence of   *)
(* tokens, so that a percent-escape ("%40") and the character it stands    *)
(* for ("@") are different texts until decoded.  A purl is the scheme and  *)
(* type prefix ("pkg:npm/"), the name text and the version after the "@"   *)
(* (Undefined when the purl ends with the name).  The names of the model   *)
(* carry a literal "@" in first position only.                             *)
(***************************************************************************)
MaxComponents == 2

\* The text a token sequence spells.
RECURSIVE Join(_)
Join(tokens) == IF tokens = <<>> THEN "" ELSE Head(tokens) \o Join(Tail(tokens))

\* decodeURIComponent on one token: an escape becomes its character, a "%"
\* that starts no escape raises URIError.
Escapes == ("%40" :> "@") @@ ("%2F" :> "/")
MalformedEscapes == {"%zz"}

decodeURIComponent(tokens) ==
    [threw |-> \E i \in DOMAIN tokens : tokens[i] \in MalformedEscapes,
     text |-> [i \in DOMAIN tokens |->
                 IF tokens[i] \in DOMAIN Escapes THEN Escapes[tokens[i]]
                 ELSE tokens[i]]]

NoPurl == [present |-> FALSE, prefix |-> "", name |-> <<>>, version |-> Undefined]
Purl(prefix, name, version) ==
    [present |-> TRUE, prefix |-> prefix, name |-> name, version |-> version]

\* purl.match(/^pkg:npm\/(.+?)@([^?#]+)/)
PurlMatches(purl) ==
    /\ purl.prefix = "pkg:npm/"
    /\ purl.name # <<>>
    /\ purl.version # Undefined
    /\ purl.version.text # ""

\* parsePackageFromPurl: null when the purl does not match; raises when the
\* name holds a malformed escape.
parsePackageFromPurl(purl) ==
    IF ~PurlMatches(purl)
      THEN [matched |-> FALSE, threw |-> FALSE, name |-> <<>>, version |-> Undefined]
      ELSE [matched |-> TRUE, threw |-> decodeURIComponent(purl.name).threw,
            name |-> decodeURIComponent(purl.name).text, version |-> purl.version]

\* CycloneDXComponent; group is "" when the field is absent.
Component(type, name, version, purl, group) ==
    [type |-> type, name |-> name, version |-> version, purl |-> purl, group |-> group]

\* name.startsWith('@')
StartsWithAt(tokens) == tokens # <<>> /\ Head(tokens) = "@"

\* The body of the loop over sbom.components for one component: whether it
\* raised, whether it stored an entry, and the entry's name and version.
ComponentStep(threw, stored, name, version) ==
    [threw |-> threw, stored |-> stored, name |-> name, version |-> version]

\* The loop body: the group prefix is applied to the name in hand, whether it
\* came from the purl or from the component's own field.
StoreComponent(component) ==
    LET purlInfo == IF component.purl.present THEN parsePackageFromPurl(component.purl)
                    ELSE parsePackageFromPurl(NoPurl)
        base == IF purlInfo.matched THEN purlInfo.name ELSE component.name
        name == IF component.group # "" /\ ~StartsWithAt(base)
                  THEN <<"@", component.group, "/">> \o base
                  ELSE base
        version == IF purlInfo.matched THEN purlInfo.version ELSE component.version
    IN  IF component.type # "library" THEN ComponentStep(FALSE, FALSE, "", Undefined)
        ELSE IF purlInfo.threw THEN ComponentStep(TRUE, FALSE, "", Undefined)
        ELSE ComponentStep(FALSE, name # <<>> /\ ~IsFalsy(version), Join(name), version)

\* The loop over the components: packages[name] = { version }, a later
\* component replacing an earlier one of the same name.
RECURSIVE ComponentLoop(_, _)
ComponentLoop(components, packages) ==
    IF components = <<>> THEN [threw |-> FALSE, packages |-> packages]
    ELSE LET step == StoreComponent(Head(components)) IN
         IF step.threw THEN [threw |-> TRUE, packages |-> packages]
         ELSE ComponentLoop(Tail(components),
                 IF step.stored
                   THEN (step.name :> [version |-> step.version]) @@ packages
                   ELSE packages)

\* An SBOM file is missing or present with a content class:
\*   "unreadable", "garbage", "nullDoc"  reading or walking the document raises
\*   "otherFormat"    a document whose bomFormat is not "CycloneDX"
\*   "noComponents"   a CycloneDX document without components
\*   "valid"          a CycloneDX document with the recorded components
MissingSbom == [exists |-> FALSE, content |-> "none", components |-> <<>>]
SbomFile(content, components) ==
    [exists |-> TRUE, content |-> content, components |-> components]

parseCycloneDXFile(file) ==
    IF ~file.exists THEN Null
    ELSE CASE file.content \in {"unreadable", "garbage", "nullDoc"} -> Null
           [] file.content = "otherFormat"  -> Null
           [] file.content = "noComponents" -> Parsed(EmptyMap)
           [] OTHER -> LET loop == ComponentLoop(file.components, EmptyMap) IN
                       IF loop.threw THEN Null ELSE Parsed(loop.packages)

(***************************************************************************)
(* scanner.ts                                                              *)
(***************************************************************************)
\* Path segments joined by "/".
RECURSIVE JoinPath(_)
JoinPath(segs) ==
    IF segs = <<>> THEN ""
    ELSE IF Len(segs) = 1 THEN Head(segs)
    ELSE Head(segs) \o "/" \o JoinPath(Tail(segs))

DefaultIgnore == {"node_modules", ".git", "dist", "build", ".next", "coverage"}

\* entry.name.startsWith('.') over the directory names of the model.
StartsWithDot(name) == name \in {".git", ".next", ".cache"}

Children(f, dir) == { d \in DOMAIN f.dirs : Len(d) = Len(dir) + 1 /\ IsPrefix(dir, d) }

\* walk(dir) of findPackageJsons: the directory itself when it holds a
\* manifest, then the walk of each sub-directory that is not ignored.
RECURSIVE Walk(_, _, _)
Walk(f, dir, ignoreSet) ==
    LET entries == SetToSeq({ d \in Children(f, dir) :
                                /\ Basename(d) \notin ignoreSet
                                /\ ~StartsWithDot(Basename(d)) })
    IN  (IF DirAt(f, dir).manifest.exists THEN <<dir>> ELSE <<>>)
        \o Flatten([i \in DOMAIN entries |-> Walk(f, entries[i], ignoreSet)])

\* ignoreSet = new Set([...defaultIgnore, ...ignorePaths]): the caller's
\* patterns (written by their segments) enter the set as their text, and
\* the walk looks up entry.name in it.
findPackageJsons(f, rootDir, ignorePaths) ==
    Walk(f, rootDir, DefaultIgnore \cup { JoinPath(p) : p \in ignorePaths })

\* A ProjectResult whose flag is never set.
ProjectResultNeverVulnerable(name, path, framework, findings) ==
    [name |-> name, path |-> path, framework |-> framework,
     findings |-> findings, vulnerable |-> FALSE]

ProjectResult(name, path, framework, findings) ==
    [name |-> name, path |-> path, framework |-> framework,
     findings |-> findings, vulnerable |-> Len(findings) > 0]

\* What one iteration of scan's loop got from scanProject: a result, null,
\* or an exception (with its message).
Outcome(kind, result, message) == [kind |-> kind, result |-> result, message |-> message]

NoResult == ProjectResult("", <<>>, "unknown", <<>>)

\* if (!lockfile && parentLockfile) lockfile = parentLockfile
EffectiveLockfile(local, parentLockfile) ==
    IF ~local.present /\ parentLockfile.present THEN parentLockfile ELSE local

\* The end of scanProject: the findings are matched, the result is built.
MatchedOutcome(projectDir, packageJson, lockfile, matched) ==
    IF matched.threw THEN Outcome("throw", NoResult, "Invalid Version")
    ELSE Outcome("result",
                 ProjectResult(IF packageJson.name # "" THEN packageJson.name
                               ELSE Basename(projectDir),
                               projectDir, detectFramework(lockfile), matched.findings),
                 "")

\* scanProject giving up (null) on a project without lockfile.
ProjectOutcomeNeedsLockfile(projectDir, packageJson, lockfile, primary) ==
    IF ~packageJson.present \/ ~lockfile.present THEN Outcome("null", NoResult, "")
    ELSE IF ~primary.found THEN Outcome("throw", NoResult, "Primary CVE rule not found")
    ELSE MatchedOutcome(projectDir, packageJson, lockfile,
                        matchLockfileAgainstRule(lockfile, primary.rule))

\* scanProject with its manifest, its lockfile and the answer of
\* getPrimaryRule in hand: null without a manifest, an exception without the
\* rule, else the match of the lockfile (no finding without a lockfile).
ProjectOutcome(projectDir, packageJson, lockfile, primary) ==
    IF ~packageJson.present THEN Outcome("null", NoResult, "")
    ELSE IF ~primary.found THEN Outcome("throw", NoResult, "Primary CVE rule not found")
    ELSE MatchedOutcome(projectDir, packageJson, lockfile,
                        IF lockfile.present
                          THEN matchLockfileAgainstRule(lockfile, primary.rule)
                          ELSE [threw |-> FALSE, findings |-> <<>>])

scanProject(f, cache, projectDir, parentLockfile) ==
    ProjectOutcome(projectDir, parsePackageJson(f, projectDir),
                   EffectiveLockfile(parseLockfile(DirAt(f, projectDir)).result,
                                     parentLockfile),
                   getPrimaryRule(f, cache))

\* useRootLockfile that is never set.
useRootLockfileNever(f, projectDir, workspace) == FALSE

useRootLockfile(f, projectDir, workspace) ==
    /\ workspace.type # "none"
    /\ isWorkspacePackage(projectDir, workspace)
    /\ ~DirAt(f, projectDir).npm.exists
    /\ ~DirAt(f, projectDir).pnpm.exists
    /\ ~DirAt(f, projectDir).yarn.exists

\* The body of scan's loop for one project directory.
ScanOne(f, cache, projectDir, workspace, rootLockfile) ==
    scanProject(f, cache, projectDir,
                IF useRootLockfile(f, projectDir, workspace) THEN rootLockfile ELSE Null)

\* ScanResult; `workspace` keeps the WorkspaceInfo of the run, `threw`
\* records that the call raised instead of returning (no ScanResult exists
\* then) and `performed` names the steps the call took.
ScanResult(projects, errors, workspace, performed) ==
    [cve |-> PrimaryId,
     vulnerable |-> \E i \in DOMAIN projects : projects[i].vulnerable,
     projects |-> projects, errors |-> errors, workspace |-> workspace,
     threw |-> workspace.threw, performed |-> performed]

NoWorkspace(rootPath) ==
    WorkspaceInfo("none", rootPath, <<>>, [steps |-> <<>>, packages |-> <<>>, threw |-> FALSE])

\* The end of scan: the outcomes of the loop are sorted into projects and
\* errors.
CollectOutcomes(f, workspace, projectDirs, outcomes) ==
    LET results == SelectSeq(outcomes, LAMBDA o : o.kind = "result")
        errorsAll == [i \in DOMAIN outcomes |->
                        [path |-> projectDirs[i], message |-> outcomes[i].message]]
        parsed == { i \in DOMAIN projectDirs : parsePackageJson(f, projectDirs[i]).present }
        performed ==
            {"detectWorkspace"}
            \cup (IF workspace.type # "none" /\ Len(workspace.packages) > 0
                    THEN {} ELSE {"findPackageJsons"})
            \cup (IF projectDirs # <<>> THEN {"parsePackageJson"} ELSE {})
            \cup (IF workspace.type # "none" \/ parsed # {} THEN {"parseLockfile"} ELSE {})
            \cup (IF parsed # {} THEN {"getPrimaryRule"} ELSE {})
    IN  ScanResult([i \in DOMAIN results |-> results[i].result],
                   SelectSeq(errorsAll, LAMBDA e : e.message # ""),
                   workspace, performed)

\* The loop of scan over projectDirs.
ScanDirs(f, cache, workspace, projectDirs, rootLockfile) ==
    CollectOutcomes(f, workspace, projectDirs,
        [i \in DOMAIN projectDirs |->
            ScanOne(f, cache, projectDirs[i], workspace, rootLockfile)])

\* scan past detectWorkspace: projectDirs and rootLockfile are computed.  An
\* exception of detectWorkspace has left scan, which calls it before the
\* loop's try block.
ScanWorkspace(f, cache, options, workspace) ==
    IF workspace.threw THEN ScanResult(<<>>, <<>>, workspace, {"detectWorkspace"})
    ELSE ScanDirs(f, cache, workspace,
                  IF workspace.type # "none" /\ Len(workspace.packages) > 0
                    THEN <<options.path>> \o workspace.packages
                    ELSE findPackageJsons(f, options.path, options.ignorePaths),
                  IF workspace.type # "none"
                    THEN parseLockfile(DirAt(f, workspace.rootPath)).result
                    ELSE Null)

\* scan past its existsSync check.
ScanExisting(f, cache, options) ==
    ScanWorkspace(f, cache, options, detectWorkspace(f, options.path))

\* scan without the check that the root exists.
scanUnchecked(f, cache, options) == ScanExisting(f, cache, options)

scan(f, cache, options) ==
    IF ~DirExists(f, options.path)
      THEN ScanResult(<<>>, <<[path |-> options.path, message |-> "Path does not exist"]>>,
                      NoWorkspace(options.path), {})
      ELSE ScanExisting(f, cache, options)

\* The framework scanSbom reads off the SBOM's packages.
SbomFramework(sbom) ==
    IF "next" \in DOMAIN sbom.packages THEN "nextjs"
    ELSE IF {"react-server-dom-webpack", "react-server-dom-parcel",
             "react-server-dom-turbopack"} \cap DOMAIN sbom.packages # {}
      THEN "react-rsc"
    ELSE "unknown"

\* A call of scanSbom that raised: no ScanResult is returned.
Raised(result) == [result EXCEPT !.threw = TRUE]

\* The end of scanSbom: an exception of matchLockfileAgainstRule leaves it,
\* else the single project is reported.
SbomResult(sbomPath, sbom, matched) ==
    IF matched.threw
      THEN Raised(ScanResult(<<>>, <<>>, NoWorkspace(Dirname(sbomPath)),
                             {"parseCycloneDXFile", "getPrimaryRule"}))
      ELSE ScanResult(<<ProjectResult(Basename(sbomPath), sbomPath, SbomFramework(sbom),
                                      matched.findings)>>,
                      <<>>, NoWorkspace(Dirname(sbomPath)),
                      {"parseCycloneDXFile", "getPrimaryRule"})

\* scanSbom with the parsed SBOM and the answer of getPrimaryRule in hand.
\* getPrimaryRule and matchLockfileAgainstRule are called outside any try
\* block.
MatchSbom(sbomPath, sbom, primary) ==
    IF ~primary.found
      THEN Raised(ScanResult(<<>>, <<>>, NoWorkspace(Dirname(sbomPath)),
                             {"parseCycloneDXFile", "getPrimaryRule"}))
      ELSE SbomResult(sbomPath, sbom, matchLockfileAgainstRule(sbom, primary.rule))

\* scanSbom past its existsSync check.
ScanParsedSbom(f, cache, sbomPath, sbom) ==
    IF ~sbom.present
      THEN ScanResult(<<>>, <<[path |-> sbomPath,
                               message |-> "Failed to parse SBOM file"]>>,
                      NoWorkspace(Dirname(sbomPath)), {"parseCycloneDXFile"})
      ELSE MatchSbom(sbomPath, sbom, getPrimaryRule(f, cache))

scanSbom(f, cache, options) ==
    IF ~f.sbom.exists
      THEN ScanResult(<<>>, <<[path |-> options.sbomPath,
                               message |-> "SBOM file does not exist"]>>,
                      NoWorkspace(Dirname(options.sbomPath)), {})
      ELSE ScanParsedSbom(f, cache, options.sbomPath, parseCycloneDXFile(f.sbom))

(***************************************************************************)
(* The scanner's inputs: a root with or without a workspace declaration    *)
(* and lockfiles, two member directories with or without a manifest and    *)
(* lockfiles of their own, and the loaded rules.                           *)
(***************************************************************************)
PrimaryRule ==
    [id |-> PrimaryId, severity |-> "critical",
     advisoryUrl |-> "https://example.com",
     packages |-> << [name |-> "react-server-dom-webpack",
                      vulnerable |-> Range(<<Interval(V(1, 1, 0), V(1, 1, MaxPatch))>>),
                      fixed |-> <<V(1, 1, MaxPatch)>>] >>,
     frameworks |-> << [name |-> "next",
                        vulnerable |-> Range(<<Interval(V(1, 1, 0), V(1, 1, MaxPatch))>>),
                        fixed |-> <<V(1, 1, MaxPatch)>>] >>]

ScanPatternLists ==
    { << Pattern(FALSE, FALSE, <<"packages", "*">>) >>,
      << Pattern(FALSE, FALSE, <<"packages", "a">>),
         Pattern(FALSE, FALSE, <<"packages", "b">>) >>,
      << Pattern(FALSE, FALSE, <<"packages", "a">>), Pattern(FALSE, FALSE, <<".">>) >>,
      << Pattern(FALSE, FALSE, <<"..", "..", "etc", "*">>) >>,
      << Pattern(FALSE, FALSE, <<"packages", "*">>), NotAString >> }

MemberDirs ==
    { Dir(m, npm, MissingFile, yarn, MissingConfig, MissingConfig) :
        m \in {Manifest("@example/web", NoPatterns), GarbageManifest, MissingManifest},
        npm \in {MissingFile, PresentFile(1024, "valid", PatchedMap),
                 PresentFile(1024, "garbage", EmptyMap)},
        yarn \in {MissingFile, PresentFile(1024, "garbage", EmptyMap)} }

RootLockfiles ==
    [npm : {MissingFile, PresentFile(1024, "valid", VulnerableMap),
            PresentFile(1024, "valid", PatchedMap),
            PresentFile(MAX_LOCKFILE_SIZE + 1, "valid", VulnerableMap)},
     yarn : {MissingFile, PresentFile(1024, "valid", VulnerableMap)}]

\* The rules directory and the cache a run starts from: the shipped rule not
\* yet loaded, no rule to load, and a rule list cached by an earlier call.
PrimaryRulesDir == RulesDir(TRUE, <<RuleFile("rule", PrimaryRule)>>)

RuleEnvs ==
    { [dir |-> PrimaryRulesDir, cache |-> NoCache],
      [dir |-> EmptyRulesDir, cache |-> NoCache],
      [dir |-> EmptyRulesDir, cache |-> Cached(<<PrimaryRule>>)] }

\* The SBOM files handed to scanSbom.
SbomPath == Root \o <<"bom.json">>

LibraryAt(name, version) ==
    Component("library", <<name>>, version, Purl("pkg:npm/", <<name>>, version), "")

ScanSboms ==
    {MissingSbom, SbomFile("garbage", <<>>), SbomFile("otherFormat", <<>>),
     SbomFile("noComponents", <<>>)}
    \cup { SbomFile("valid", <<LibraryAt("react", V(1, 1, 0)), LibraryAt(n, v)>>) :
             n \in {"next", "react-server-dom-webpack", "lodash"},
             v \in {V(1, 0, 0), V(1, 1, 0), V(1, 1, MaxPatch)} }

InitScanSbom ==
    /\ pc = "ready"
    /\ ret = NoRet
    /\ args = [op |-> "scanSbom", sbomPath |-> SbomPath]
    /\ \E file \in ScanSboms, env \in RuleEnvs :
          /\ fs = [dirs |-> (Root :> BareDir), rules |-> env.dir, sbom |-> file]
          /\ cachedRules = env.cache

InitScanTree ==
    /\ pc = "ready"
    /\ ret = NoRet
    /\ args = [op |-> "scan", path |-> Root, ignorePaths |-> {}]
    /\ \/ /\ fs = [dirs |-> <<>>, rules |-> PrimaryRulesDir]
          /\ cachedRules = NoCache
       \/ \E P \in ScanPatternLists, a \in MemberDirs, b \in MemberDirs,
             lock \in RootLockfiles, env \in RuleEnvs :
          \E ws \in {NoPatterns, Declared(P)},
             pnpmWs \in {MissingConfig, Config(Declared(P))} :
             /\ fs = [dirs |-> (Root :> Dir(Manifest("", ws), lock.npm, MissingFile,
                                            lock.yarn, pnpmWs, MissingConfig))
                               @@ (PkgA :> a) @@ (PkgB :> b) @@ Skeleton,
                      rules |-> env.dir]
             /\ cachedRules = env.cache

\* Trees for the discovery walk: a root without workspace declaration, with
\* sub-directories of which some are to be skipped, and the caller's ignore
\* patterns.
WalkParents ==
    { Root \o <<"examples">>, Root \o <<"dist">>, Root \o <<".cache">>,
      Root \o <<"node_modules">>, Root \o <<"src">> }

WalkProjects ==
    { Root \o <<"examples", "app">>, Root \o <<"dist", "lib">>,
      Root \o <<".cache", "tool">>, Root \o <<"node_modules", "next">>,
      Root \o <<"src", "web">> }

IgnoreLists ==
    { {}, {<<"examples", "**">>}, {<<"examples">>}, {<<"src">>, <<"examples", "**">>} }

InitScanWalk ==
    /\ pc = "ready"
    /\ ret = NoRet
    /\ cachedRules = NoCache
    /\ \E ignore \in IgnoreLists, present \in SUBSET WalkProjects :
          /\ args = [op |-> "scan", path |-> Root, ignorePaths |-> ignore]
          /\ fs = [dirs |-> (Root :> Dir(Manifest("root", NoPatterns),
                                         PresentFile(1024, "valid", VulnerableMap),
                                         MissingFile, MissingFile,
                                         MissingConfig, MissingConfig))
                            @@ [d \in present |-> PackageDir(Basename(d))]
                            @@ [d \in WalkParents |-> BareDir],
                   rules |-> PrimaryRulesDir]

InitScan == InitScanTree \/ InitScanSbom \/ InitScanWalk

\* scan reads and fills the rule cache through getPrimaryRule.
Scan ==
    /\ pc = "ready"
    /\ args.op = "scan"
    /\ ret' = scan(fs, cachedRules, args)
    /\ cachedRules' = IF "getPrimaryRule" \in ret'.performed
                        THEN loadRules(fs, cachedRules).cache
                        ELSE cachedRules
    /\ pc' = "done"
    /\ UNCHANGED <<args, fs>>

ScanSbom ==
    /\ pc = "ready"
    /\ args.op = "scanSbom"
    /\ ret' = scanSbom(fs, cachedRules, args)
    /\ cachedRules' = IF "getPrimaryRule" \in ret'.performed
                        THEN loadRules(fs, cachedRules).cache
                        ELSE cachedRules
    /\ pc' = "done"
    /\ UNCHANGED <<args, fs>>

NextScan == Scan \/ ScanSbom

SpecScan == InitScan /\ [][NextScan]_vars

(***************************************************************************)
(* C6: in a detected workspace, every member directory (an entry of        *)
(* WorkspaceInfo.packages) with a readable manifest and no lockfile of its *)
(* own is reported as a ProjectResult whose findings are those computed    *)
(* from the workspace root's parsed lockfile, so two such members have     *)
(* identical findings.  (The primary rule being loaded: without it no      *)
(* project is matched at all.)                                             *)
(***************************************************************************)
\* The root's parsed lockfile, stated without parseLockfile: the result of
\* the first of npm, pnpm, yarn that is present, null when none is.
RootLockfile ==
    LET dir == DirAt(fs, args.path)
        present == { n \in {"npm", "pnpm", "yarn"} : ParserResult(n, dir).present }
    IN  IF "npm" \in present THEN ParserResult("npm", dir)
        ELSE IF "pnpm" \in present THEN ParserResult("pnpm", dir)
        ELSE IF "yarn" \in present THEN ParserResult("yarn", dir)
        ELSE Null

RootFindings ==
    IF RootLockfile.present
      THEN matchLockfileAgainstRule(RootLockfile, getPrimaryRule(fs, cachedRules).rule).findings
      ELSE <<>>

InheritingMember(dir) ==
    /\ dir \in Range_(ret.workspace.packages)
    /\ DirAt(fs, dir).manifest.exists
    /\ DirAt(fs, dir).manifest.content = "valid"
    /\ ~DirAt(fs, dir).npm.exists
    /\ ~DirAt(fs, dir).pnpm.exists
    /\ ~DirAt(fs, dir).yarn.exists

C6_MembersInheritRootLockfile ==
    (Done("scan") /\ ret.workspace.type # "none" /\ getPrimaryRule(fs, cachedRules).found) =>
        \A dir \in Range_(ret.workspace.packages) :
            InheritingMember(dir) =>
                /\ \E j \in DOMAIN ret.projects : ret.projects[j].path = dir
                /\ \A j \in DOMAIN ret.projects :
                      ret.projects[j].path = dir =>
                          /\ ret.projects[j].findings = RootFindings
                          /\ ret.projects[j].vulnerable = (RootFindings # <<>>)

\* Two members without lockfiles under a root whose lockfile resolves a
\* vulnerable version: both are reported, with the same finding.
C6_Witness ==
    /\ Done("scan")
    /\ InheritingMember(PkgA)
    /\ InheritingMember(PkgB)
    /\ Len(ret.projects) = 3
    /\ ret.projects[2].path # ret.projects[3].path
    /\ ret.projects[2].findings = ret.projects[3].findings
    /\ Len(ret.projects[2].findings) = 1
    /\ ret.projects[2].findings[1].package = "next"
    /\ ret.vulnerable

(***************************************************************************)
(* C11: scan never throws, whatever the manifests, workspace configuration *)
(* files and lockfiles under the root contain: it returns a ScanResult in  *)
(* which every project directory with a readable manifest is either        *)
(* reported as a project or named by an entry of errors.                   *)
(***************************************************************************)
\* The directories scan's loop visits, stated from the returned workspace.
ScannedDirs ==
    IF ret.workspace.type # "none" /\ Len(ret.workspace.packages) > 0
      THEN {args.path} \cup Range_(ret.workspace.packages)
      ELSE Range_(findPackageJsons(fs, args.path, args.ignorePaths))

C11_ScanNeverThrows ==
    (Done("scan") /\ DirExists(fs, args.path)) =>
        /\ ~ret.threw
        /\ \A dir \in ScannedDirs :
              parsePackageJson(fs, dir).present =>
                  \/ \E j \in DOMAIN ret.projects : ret.projects[j].path = dir
                  \/ \E j \in DOMAIN ret.errors : ret.errors[j].path = dir

(***************************************************************************)
(* C12: when the scan root passed to scan, or the SBOM path passed to      *)
(* scanSbom, does not exist, the call returns without throwing a           *)
(* ScanResult with vulnerable false, no project and exactly one error,     *)
(* having performed no workspace detection, walk, parsing or rule loading  *)
(* (the rule cache is as it was).                                          *)
(***************************************************************************)
TargetMissing ==
    \/ args.op = "scan" /\ ~DirExists(fs, args.path)
    \/ args.op = "scanSbom" /\ ~fs.sbom.exists

C12_MissingTargetIsTerminal ==
    [][ (pc = "ready" /\ args.op \in {"scan", "scanSbom"} /\ TargetMissing) =>
            /\ pc' = "done"
            /\ ~ret'.threw
            /\ ~ret'.vulnerable
            /\ ret'.projects = <<>>
            /\ Len(ret'.errors) = 1
            /\ ret'.errors[1].message \in {"Path does not exist", "SBOM file does not exist"}
            /\ ret'.performed = {}
            /\ cachedRules' = cachedRules ]_vars

\* scan was called on a root that does not exist and answered with its one
\* error, the rules never having been loaded.
C12_Witness ==
    /\ Done("scan")
    /\ ~DirExists(fs, args.path)
    /\ ret.errors = <<[path |-> args.path, message |-> "Path does not exist"]>>
    /\ ret.projects = <<>>
    /\ ~cachedRules.populated

(***************************************************************************)
(* C13: when no rule with id CVE-2025-55182 can be loaded, getPrimaryRule  *)
(* raises, and a scan or scanSbom run that came to need the rule does not  *)
(* complete by returning a ScanResult whose vulnerable flag is false.      *)
(***************************************************************************)
C13_MissingRuleHalts ==
    (/\ pc = "done"
     /\ args.op \in {"scan", "scanSbom"}
     /\ "getPrimaryRule" \in ret.performed
     /\ ~getPrimaryRule(fs, cachedRules).found) =>
        ~(~ret.threw /\ ~ret.vulnerable)

(***************************************************************************)
(* C15: in every ScanResult returned by scan or scanSbom, each project's   *)
(* vulnerable flag says whether its findings are non-empty, and the        *)
(* top-level flag is the OR of the projects' flags (false for no project). *)
(***************************************************************************)
C15_VulnerableFlags ==
    (pc = "done" /\ args.op \in {"scan", "scanSbom"} /\ ~ret.threw) =>
        /\ \A j \in DOMAIN ret.projects :
              ret.projects[j].vulnerable = (ret.projects[j].findings # <<>>)
        /\ ret.vulnerable = \E j \in DOMAIN ret.projects : ret.projects[j].vulnerable

\* A workspace scan reporting a member with findings next to one without.
C15_Witness ==
    /\ Done("scan")
    /\ ~ret.threw
    /\ ret.vulnerable
    /\ \E j \in DOMAIN ret.projects :
          ret.projects[j].vulnerable /\ ret.projects[j].findings # <<>>
    /\ \E j \in DOMAIN ret.projects :
          ~ret.projects[j].vulnerable /\ ret.projects[j].findings = <<>>

(***************************************************************************)
(* The rule store: any sequence of loadRules, getRule, getPrimaryRule and  *)
(* clearRulesCache calls over a rules directory that is unreadable or      *)
(* holds up to MaxRuleFiles files.  ret records what the last call         *)
(* returned and whether it read the directory.                             *)
(***************************************************************************)
MaxRuleFiles == 2

OtherId == "CVE-0000-0001"
OtherRule == [PrimaryRule EXCEPT !.id = OtherId]
NoRuleDoc == [PrimaryRule EXCEPT !.id = ""]

RuleFiles ==
    { RuleFile("rule", PrimaryRule), RuleFile("rule", OtherRule),
      RuleFile("invalid", NoRuleDoc), RuleFile("garbage", NoRuleDoc),
      RuleFile("other", NoRuleDoc) }

RulesDirs ==
    {RulesDir(FALSE, <<>>)}
    \cup { RulesDir(TRUE, files) : files \in SeqsUpTo(RuleFiles, MaxRuleFiles) }

RuleCall(call, cveId) == [op |-> "rules", call |-> call, cveId |-> cveId]

\* What a call returned: the list loadRules gave it, whether the directory
\* was read and the load failed, and for the getters the rule looked up.
RuleReturn(load, found, threw) ==
    [rules |-> load.rules, read |-> load.read, failed |-> load.failed,
     found |-> found, threw |-> threw]

InitRules ==
    /\ pc = "ready"
    /\ ret = NoRet
    /\ args = RuleCall("none", "")
    /\ cachedRules = NoCache
    /\ \E dir \in RulesDirs : fs = [dirs |-> <<>>, rules |-> dir]

LoadRules ==
    /\ args.op = "rules"
    /\ args' = RuleCall("loadRules", "")
    /\ ret' = RuleReturn(loadRules(fs, cachedRules), FALSE, FALSE)
    /\ cachedRules' = loadRules(fs, cachedRules).cache
    /\ pc' = "done"
    /\ UNCHANGED fs

GetRule ==
    /\ args.op = "rules"
    /\ \E cveId \in {PrimaryId, OtherId} :
          /\ args' = RuleCall("getRule", cveId)
          /\ ret' = RuleReturn(loadRules(fs, cachedRules),
                               getRule(loadRules(fs, cachedRules).rules, cveId).found,
                               FALSE)
    /\ cachedRules' = loadRules(fs, cachedRules).cache
    /\ pc' = "done"
    /\ UNCHANGED fs

GetPrimaryRule ==
    /\ args.op = "rules"
    /\ args' = RuleCall("getPrimaryRule", PrimaryId)
    /\ ret' = RuleReturn(loadRules(fs, cachedRules),
                         getPrimaryRule(fs, cachedRules).found,
                         ~getPrimaryRule(fs, cachedRules).found)
    /\ cachedRules' = loadRules(fs, cachedRules).cache
    /\ pc' = "done"
    /\ UNCHANGED fs

ClearRulesCache ==
    /\ args.op = "rules"
    /\ args' = RuleCall("clearRulesCache", "")
    /\ ret' = RuleReturn(RuleLoad(<<>>, NoCache, FALSE, FALSE), FALSE, FALSE)
    /\ cachedRules' = NoCache
    /\ pc' = "done"
    /\ UNCHANGED fs

NextRules == LoadRules \/ GetRule \/ GetPrimaryRule \/ ClearRulesCache

SpecRules == InitRules /\ [][NextRules]_vars

(***************************************************************************)
(* C14: over any sequence of loadRules, getRule and getPrimaryRule calls   *)
(* the cache is populated only by a load that did not fail (a failed load  *)
(* leaves it unpopulated), and once it is populated every later call       *)
(* returns the cached list without reading the directory again.            *)
(***************************************************************************)
C14_CacheOnlySuccessfulLoad ==
    [][ (args.op = "rules" /\ args'.call # "clearRulesCache") =>
            /\ (~cachedRules.populated /\ ret'.failed) => ~cachedRules'.populated
            /\ (~cachedRules.populated /\ ~ret'.failed) =>
                  (ret'.read /\ cachedRules' = Cached(ret'.rules))
            /\ cachedRules.populated =>
                  /\ cachedRules' = cachedRules
                  /\ ~ret'.read
                  /\ ret'.rules = cachedRules.rules ]_vars

(***************************************************************************)
(* The lockfile documents, as the parsers walk them once the file has been *)
(* read and parsed.  A package name or a version is a text; a key of more  *)
(* than one part is written as the sequence of its parts.  An object is    *)
(* the sequence of its entries in document order.                          *)
(***************************************************************************)
MaxDocEntries == 2

\* Record<string, LockfileEntry> under construction.
NoPackages == [n \in {} |-> [version |-> ""]]
Store(packages, name, version) == (name :> [version |-> version]) @@ packages

\* An object that may be absent from the document.
Absent == [present |-> FALSE, entries |-> <<>>]
Object(entries) == [present |-> TRUE, entries |-> entries]

(***************************************************************************)
(* lockfile-npm.ts: the walk over the document.                            *)
(***************************************************************************)
\* parts[parts.length - 1] of packageName.split('/node_modules/'): a segment
\* "node_modules" separates when a "/" stands on both of its sides, and the
\* segment after a separator has lost its leading "/" to it.
RECURSIVE LastPart(_, _, _)
LastPart(segs, i, start) ==
    IF i >= Len(segs) THEN SubSeq(segs, start, Len(segs))
    ELSE IF segs[i] = "node_modules" /\ i > start THEN LastPart(segs, i + 1, i + 1)
    ELSE LastPart(segs, i + 1, start)

\* The name derived from a key of `packages`: only a key that starts with
\* "node_modules/" is cut; any other key is taken whole.
NpmPackageName(key) ==
    IF Len(key) >= 2 /\ Head(key) = "node_modules"
      THEN JoinPath(LastPart(Tail(key), 1, 1))
      ELSE JoinPath(key)

\* An entry of `packages`; version "" stands for an entry without version.
NpmEntry(key, version) == [key |-> key, version |-> version]

RECURSIVE NpmPackagesLoop(_, _)
NpmPackagesLoop(entries, packages) ==
    IF entries = <<>> THEN packages
    ELSE LET pkg == Head(entries)
             packageName == NpmPackageName(pkg.key)
         IN  IF pkg.version = "" THEN NpmPackagesLoop(Tail(entries), packages)
             ELSE IF packageName = "" THEN NpmPackagesLoop(Tail(entries), packages)
             ELSE NpmPackagesLoop(Tail(entries), Store(packages, packageName, pkg.version))

\* A node of the v1 `dependencies` tree.
DepNode(name, version, dependencies) ==
    [name |-> name, version |-> version, dependencies |-> dependencies]

\* extractDeps of parseNpmLockfile: packages[name] is assigned for every
\* node, then the node's own dependencies are walked, then its siblings.
RECURSIVE extractDepsNpm(_, _)
extractDepsNpm(deps, packages) ==
    IF deps = <<>> THEN packages
    ELSE LET info == Head(deps)
             stored == Store(packages, info.name, info.version)
         IN  extractDepsNpm(Tail(deps), extractDepsNpm(info.dependencies, stored))

NpmDocument(packages, dependencies) ==
    [packages |-> packages, dependencies |-> dependencies]

\* The body of parseNpmLockfile after JSON.parse.
NpmDocumentWalk(lockfile) ==
    LET fromPackages == IF lockfile.packages.present
                          THEN NpmPackagesLoop(lockfile.packages.entries, NoPackages)
                          ELSE NoPackages
        fallback == lockfile.dependencies.present /\ DOMAIN fromPackages = {}
    IN  [packages |-> IF fallback
                        THEN extractDepsNpm(lockfile.dependencies.entries, fromPackages)
                        ELSE fromPackages,
         fallback |-> fallback]

(***************************************************************************)
(* lockfile-pnpm.ts: the walk over the document.  A key of `packages` and  *)
(* a version of the secondary structure are token sequences in which "/"   *)
(* (leading), "@", "(" and "link:" stand as tokens of their own.           *)
(***************************************************************************)
\* The positions of a token in a text.
Positions(tokens, t) == { i \in DOMAIN tokens : tokens[i] = t }
Min(S) == CHOOSE x \in S : \A y \in S : x <= y
Max(S) == CHOOSE x \in S : \A y \in S : x >= y

\* { name, version } | null
NoKey == [parsed |-> FALSE, name |-> <<>>, version |-> <<>>]
Key(name, version) == [parsed |-> TRUE, name |-> name, version |-> version]

\* parsePackageKey: a scoped key is cut at its last "@", any other at its
\* first.
parsePackageKey(key) ==
    LET normalized == IF key # <<>> /\ Head(key) = "/" THEN Tail(key) ELSE key
        ats == Positions(normalized, "@")
    IN  IF normalized # <<>> /\ Head(normalized) = "@"
          THEN IF Max(ats) > 1
                 THEN Key(SubSeq(normalized, 1, Max(ats) - 1),
                          SubSeq(normalized, Max(ats) + 1, Len(normalized)))
                 ELSE NoKey
        ELSE IF ats # {} /\ Min(ats) > 1
          THEN Key(SubSeq(normalized, 1, Min(ats) - 1),
                   SubSeq(normalized, Min(ats) + 1, Len(normalized)))
        ELSE NoKey

\* The loop over lockfile.packages: packages[parsed.name] is assigned for
\* every key that parses.
RECURSIVE PnpmPackagesLoop(_, _)
PnpmPackagesLoop(keys, packages) ==
    IF keys = <<>> THEN packages
    ELSE LET parsed == parsePackageKey(Head(keys)) IN
         IF parsed.parsed
           THEN PnpmPackagesLoop(Tail(keys),
                                 Store(packages, Join(parsed.name), Join(parsed.version)))
           ELSE PnpmPackagesLoop(Tail(keys), packages)

\* version.split('(')[0]
BeforeParen(version) ==
    IF Positions(version, "(") = {} THEN version
    ELSE SubSeq(version, 1, Min(Positions(version, "(")) - 1)

\* An entry of dependencies / devDependencies; version <<>> stands for an
\* entry without version.
PnpmDep(name, version) == [name |-> name, version |-> version]

\* The loop of extractDeps without the test that the name is new.
RECURSIVE DepsLoopOverwriting(_, _)
DepsLoopOverwriting(entries, packages) ==
    IF entries = <<>> THEN packages
    ELSE LET info == Head(entries) IN
         IF info.version # <<>> /\ Head(info.version) # "link:"
           THEN DepsLoopOverwriting(Tail(entries),
                         Store(packages, info.name, Join(BeforeParen(info.version))))
           ELSE DepsLoopOverwriting(Tail(entries), packages)

\* The loop of extractDeps.
RECURSIVE DepsLoop(_, _)
DepsLoop(entries, packages) ==
    IF entries = <<>> THEN packages
    ELSE LET info == Head(entries) IN
         IF /\ info.version # <<>>
            /\ Head(info.version) # "link:"
            /\ info.name \notin DOMAIN packages
           THEN DepsLoop(Tail(entries),
                         Store(packages, info.name, Join(BeforeParen(info.version))))
           ELSE DepsLoop(Tail(entries), packages)

\* extractDeps of parsePnpmLockfile, with `!packages[name]` dropped.
extractDepsOverwriting(deps, packages) ==
    IF ~deps.present THEN packages ELSE DepsLoopOverwriting(deps.entries, packages)

\* extractDeps of parsePnpmLockfile.
extractDepsPnpm(deps, packages) ==
    IF ~deps.present THEN packages ELSE DepsLoop(deps.entries, packages)

Importer(dependencies, devDependencies) ==
    [dependencies |-> dependencies, devDependencies |-> devDependencies]

RECURSIVE ImportersLoop(_, _)
ImportersLoop(importers, packages) ==
    IF importers = <<>> THEN packages
    ELSE ImportersLoop(Tail(importers),
            extractDepsPnpm(Head(importers).devDependencies,
                            extractDepsPnpm(Head(importers).dependencies, packages)))

PnpmDocument(packages, dependencies, devDependencies, importers) ==
    [packages |-> packages, dependencies |-> dependencies,
     devDependencies |-> devDependencies, importers |-> importers]

\* The result of the first loop alone.
PnpmFromPackages(lockfile) ==
    IF lockfile.packages.present
      THEN PnpmPackagesLoop(lockfile.packages.entries, NoPackages)
      ELSE NoPackages

\* The body of parsePnpmLockfile after yaml.load.
PnpmDocumentWalk(lockfile) ==
    LET direct == extractDepsPnpm(lockfile.devDependencies,
                     extractDepsPnpm(lockfile.dependencies, PnpmFromPackages(lockfile)))
    IN  [packages |-> IF lockfile.importers.present
                        THEN ImportersLoop(lockfile.importers.entries, direct)
                        ELSE direct,
         fallback |-> FALSE]

(***************************************************************************)
(* lockfile-yarn.ts: the line scanners.  A line is a header (an unindented *)
(* line holding "@", written as its tokens: quote, comma, space, colon,    *)
(* "@", "npm:" and the texts between them), a version line in the Classic  *)
(* (`version "1.2.3"`) or the Berry (`version: 1.2.3`) style, or another   *)
(* line (resolved, integrity, checksum, dependencies, comments, blanks).   *)
(***************************************************************************)
Quote == "\""

HeaderLine(tokens) == [kind |-> "header", tokens |-> tokens, style |-> "", value |-> ""]
VersionLine(style, value) ==
    [kind |-> "version", tokens |-> <<>>, style |-> style, value |-> value]
OtherLine == [kind |-> "other", tokens |-> <<>>, style |-> "", value |-> ""]

\* line.replace(/:$/, '')
StripColon(tokens) ==
    IF tokens # <<>> /\ tokens[Len(tokens)] = ":"
      THEN SubSeq(tokens, 1, Len(tokens) - 1) ELSE tokens

\* headerLine.split(',')
RECURSIVE SplitComma(_, _)
SplitComma(tokens, piece) ==
    IF tokens = <<>> THEN <<piece>>
    ELSE IF Head(tokens) = "," THEN <<piece>> \o SplitComma(Tail(tokens), <<>>)
    ELSE SplitComma(Tail(tokens), Append(piece, Head(tokens)))

\* s.trim()
RECURSIVE Trim(_)
Trim(tokens) ==
    IF tokens # <<>> /\ Head(tokens) = " " THEN Trim(Tail(tokens))
    ELSE IF tokens # <<>> /\ tokens[Len(tokens)] = " "
      THEN Trim(SubSeq(tokens, 1, Len(tokens) - 1))
    ELSE tokens

\* s.replace(/^["']|["']$/g, ''): one quote off each end.
StripQuotes(tokens) ==
    LET front == IF tokens # <<>> /\ Head(tokens) = Quote THEN Tail(tokens) ELSE tokens
    IN  IF front # <<>> /\ front[Len(front)] = Quote
          THEN SubSeq(front, 1, Len(front) - 1) ELSE front

\* currentPackageNames of a header line.
HeaderSpecs(tokens) ==
    LET pieces == SplitComma(StripColon(tokens), <<>>) IN
    [i \in DOMAIN pieces |-> StripQuotes(Trim(pieces[i]))]

\* The name parseYarnClassic derives from a specifier.
ClassicName(pkgSpec) ==
    LET ats == Positions(pkgSpec, "@")
        name == IF pkgSpec # <<>> /\ Head(pkgSpec) = "@"
                  THEN SubSeq(pkgSpec, 1, Max(ats) - 1)
                ELSE IF ats # {} /\ Min(ats) > 1
                  THEN SubSeq(pkgSpec, 1, Min(ats) - 1)
                ELSE pkgSpec
    IN  Join(StripQuotes(name))

\* name.replace(/@npm:.*$/, '').replace(/@workspace:.*$/, '')
CutProtocol(tokens, protocol) ==
    LET at == { i \in DOMAIN tokens :
                  tokens[i] = "@" /\ i < Len(tokens) /\ tokens[i + 1] = protocol }
    IN  IF at = {} THEN tokens ELSE SubSeq(tokens, 1, Min(at) - 1)

\* The name parseYarnBerry derives from a specifier.
BerryName(pkgSpec) ==
    LET bare == CutProtocol(CutProtocol(StripQuotes(pkgSpec), "npm:"), "workspace:")
        ats == Positions(bare, "@")
    IN  IF bare # <<>> /\ Head(bare) = "@"
          THEN IF Max(ats) > 1 THEN Join(SubSeq(bare, 1, Max(ats) - 1)) ELSE Join(bare)
        ELSE IF ats # {} /\ Min(ats) > 1 THEN Join(SubSeq(bare, 1, Min(ats) - 1))
        ELSE Join(bare)

\* The name a parser of the given style derives.
SpecName(style, pkgSpec) ==
    IF style = "berry" THEN BerryName(pkgSpec) ELSE ClassicName(pkgSpec)

\* The loop of saveCurrentPackage without the test that the name is new.
RECURSIVE SaveLoopOverwriting(_, _, _, _)
SaveLoopOverwriting(style, specs, version, packages) ==
    IF specs = <<>> THEN packages
    ELSE LET name == SpecName(style, Head(specs)) IN
         SaveLoopOverwriting(style, Tail(specs), version,
             IF name # "" THEN Store(packages, name, version) ELSE packages)

\* The loop of saveCurrentPackage over currentPackageNames.
RECURSIVE SaveLoop(_, _, _, _)
SaveLoop(style, specs, version, packages) ==
    IF specs = <<>> THEN packages
    ELSE LET name == SpecName(style, Head(specs)) IN
         SaveLoop(style, Tail(specs), version,
             IF name # "" /\ name \notin DOMAIN packages
               THEN Store(packages, name, version) ELSE packages)

\* saveCurrentPackage, with `!packages[name]` dropped.
saveCurrentPackageOverwriting(style, names, version, packages) ==
    IF names # <<>> /\ version # "" THEN SaveLoopOverwriting(style, names, version, packages)
    ELSE packages

\* saveCurrentPackage: the map after it; currentVersion "" stands for
\* undefined.
saveCurrentPackage(style, names, version, packages) ==
    IF names # <<>> /\ version # "" THEN SaveLoop(style, names, version, packages)
    ELSE packages

\* The loop over the lines, from the state (currentPackageNames,
\* currentVersion, packages), ending with the save of the last block.
RECURSIVE YarnLines(_, _, _, _, _)
YarnLines(style, lines, names, version, packages) ==
    IF lines = <<>> THEN saveCurrentPackage(style, names, version, packages)
    ELSE LET line == Head(lines) IN
         CASE line.kind = "header" /\ (style = "classic" \/ line.tokens[Len(line.tokens)] = ":") ->
                YarnLines(style, Tail(lines), HeaderSpecs(line.tokens), "",
                          saveCurrentPackage(style, names, version, packages))
           [] line.kind = "version" /\ line.style = style ->
                YarnLines(style, Tail(lines), names, line.value, packages)
           [] OTHER -> YarnLines(style, Tail(lines), names, version, packages)

parseYarnClassic(lines) ==
    [packages |-> YarnLines("classic", lines, <<>>, "", NoPackages), fallback |-> FALSE]

parseYarnBerry(lines) ==
    [packages |-> YarnLines("berry", lines, <<>>, "", NoPackages), fallback |-> FALSE]

\* The content of a yarn.lock: its lines, and whether a "__metadata:" line
\* stands among them.
YarnText(lines, metadata) == [lines |-> lines, metadata |-> metadata]

\* isYarnBerry: content.includes('__metadata:') || content.includes('@npm:')
isYarnBerry(content) ==
    \/ content.metadata
    \/ \E i \in DOMAIN content.lines :
          CutProtocol(content.lines[i].tokens, "npm:") # content.lines[i].tokens

\* The body of parseYarnLockfile after readFileSync.
YarnTextWalk(content) ==
    IF isYarnBerry(content) THEN parseYarnBerry(content.lines)
    ELSE parseYarnClassic(content.lines)

(***************************************************************************)
(* The npm documents: a `packages` object of up to MaxDocEntries entries   *)
(* with distinct keys, or a v1 `dependencies` tree of depth two next to a  *)
(* `packages` object that is absent, empty, root-only or not empty.        *)
(***************************************************************************)
NpmKeys ==
    { <<>>,
      <<"node_modules", "next">>,
      <<"node_modules", "@scope", "pkg">>,
      <<"node_modules", "a", "node_modules", "next">>,
      <<"packages", "web", "node_modules", "next">>,
      <<"packages", "web">> }

DocVersions == {"1.0.0", "2.0.0"}

NpmEntries == { NpmEntry(k, v) : k \in NpmKeys, v \in DocVersions \cup {""} }

NpmPackageLists ==
    { es \in SeqsUpTo(NpmEntries, MaxDocEntries) :
        \A i, j \in DOMAIN es : i # j => es[i].key # es[j].key }

DepNames == {"a", "b"}

DepLeaves == { DepNode(n, v, <<>>) : n \in DepNames, v \in DocVersions }

\* The entries of one object have distinct names.
DistinctNames(nodes) == \A i, j \in DOMAIN nodes : i # j => nodes[i].name # nodes[j].name

DepChildLists == { c \in SeqsUpTo(DepLeaves, 2) : DistinctNames(c) }

DepNodes == { DepNode(n, v, c) : n \in DepNames, v \in DocVersions, c \in DepChildLists }

DepTrees == { t \in SeqsUpTo(DepNodes, 2) : DistinctNames(t) }

NpmDocuments ==
    { NpmDocument(Object(es), Absent) : es \in NpmPackageLists }
    \cup { NpmDocument(p, Object(t)) :
             p \in { Absent, Object(<<>>), Object(<<NpmEntry(<<>>, "1.0.0")>>),
                     Object(<<NpmEntry(<<"node_modules", "a">>, "1.0.0")>>) },
             t \in DepTrees }

(***************************************************************************)
(* The pnpm documents: a `packages` object that is absent, empty or holds  *)
(* one key, next to dependencies, devDependencies and one importer.        *)
(***************************************************************************)
PnpmKeys ==
    { <<"/", "react", "@", "18.2.0">>,
      <<"/", "@", "scope/pkg", "@", "1.0.0">>,
      <<"/", "react-dom", "@", "18.2.0", "(", "react", "@", "18.2.0", ")">>,
      <<"/", "@", "scope/ui", "@", "1.0.0", "(", "react", "@", "18.2.0", ")">> }

PnpmDepVersions ==
    { <<>>, <<"18.3.0">>, <<"18.3.0", "(", "react-dom", "@", "18.2.0", ")">>,
      <<"link:", "../react">> }

PnpmDeps == { PnpmDep(n, v) : n \in {"react", "@scope/pkg"}, v \in PnpmDepVersions }

PnpmDepLists == { es \in SeqsUpTo(PnpmDeps, MaxDocEntries) : DistinctNames(es) }

PnpmDepObjects == {Absent} \cup { Object(<<e>>) : e \in PnpmDeps }

PnpmDocuments ==
    { PnpmDocument(p, Object(deps), dev, imp) :
        p \in {Absent, Object(<<>>)} \cup { Object(<<k>>) : k \in PnpmKeys },
        deps \in PnpmDepLists,
        dev \in PnpmDepObjects,
        imp \in {Absent} \cup { Object(<<Importer(d, Absent)>>) : d \in PnpmDepObjects } }

(***************************************************************************)
(* The yarn texts: up to MaxLines lines of one style.                      *)
(***************************************************************************)
MaxLines == 4

ClassicLines ==
    { HeaderLine(<<Quote, "pkg", "@", "^1.0.0", Quote, ",", " ",
                   Quote, "pkg", "@", "^2.0.0", Quote, ":">>),
      HeaderLine(<<"pkg", "@", "^3.0.0", ":">>),
      HeaderLine(<<Quote, "@", "scope/pkg", "@", "^1.0.0", Quote, ":">>),
      VersionLine("classic", "1.2.3"),
      VersionLine("classic", "3.0.0"),
      OtherLine }

BerryLines ==
    { HeaderLine(<<Quote, "pkg", "@", "npm:", "^1.0.0", ",", " ",
                   "pkg", "@", "npm:", "^2.0.0", Quote, ":">>),
      HeaderLine(<<Quote, "pkg", "@", "npm:", "^3.0.0", Quote, ":">>),
      HeaderLine(<<Quote, "@", "scope/pkg", "@", "npm:", "^1.0.0", Quote, ":">>),
      VersionLine("berry", "1.2.3"),
      VersionLine("berry", "3.0.0"),
      OtherLine }

YarnTexts ==
    { YarnText(lines, FALSE) : lines \in SeqsUpTo(ClassicLines, MaxLines) }
    \cup { YarnText(lines, TRUE) : lines \in SeqsUpTo(BerryLines, MaxLines) }

(***************************************************************************)
(* parseYarnClassic on the text of its lines.  A line is the sequence of   *)
(* its tokens: a space, a quote, ":" and the texts between them, cut so    *)
(* that the words the scanner searches for ("version", "resolved",         *)
(* "integrity") are tokens of their own wherever the line holds them       *)
(* (`latest-version` is "latest-", "version").  An entry keeps the three   *)
(* fields; "" stands for undefined.                                        *)
(***************************************************************************)
NoClassicEntries ==
    [n \in {} |-> [version |-> "", resolved |-> "", integrity |-> ""]]

\* The end of the run of tokens that are neither space nor quote from `from`.
RECURSIVE RunEnd(_, _)
RunEnd(tokens, from) ==
    IF from < Len(tokens) /\ tokens[from + 1] \notin {" ", Quote}
      THEN RunEnd(tokens, from + 1) ELSE from

\* /key\s+["']?([^"'\s]+)["']?/ tried at the occurrence i of the key: the
\* capture, or "" when the pattern does not match there.
KeyMatchAt(tokens, i) ==
    LET rest == { j \in DOMAIN tokens : j > i /\ tokens[j] # " " }
        first == IF rest = {} THEN 0 ELSE Min(rest)
        start == IF first # 0 /\ tokens[first] = Quote THEN first + 1 ELSE first
    IN  IF first > i + 1 /\ start <= Len(tokens) /\ tokens[start] \notin {" ", Quote}
          THEN Join(SubSeq(tokens, start, RunEnd(tokens, start)))
        ELSE ""

\* line.match(/key\s+["']?([^"'\s]+)["']?/): the capture of the leftmost
\* match, "" for no match.
KeyMatch(tokens, key) ==
    LET hits == { i \in Positions(tokens, key) : KeyMatchAt(tokens, i) # "" }
    IN  IF hits = {} THEN "" ELSE KeyMatchAt(tokens, Min(hits))

\* saveCurrentPackage of parseYarnClassic with the three fields.
RECURSIVE SaveClassicEntry(_, _, _)
SaveClassicEntry(specs, entry, packages) ==
    IF specs = <<>> \/ entry.version = "" THEN packages
    ELSE LET name == ClassicName(Head(specs)) IN
         SaveClassicEntry(Tail(specs), entry,
             IF name # "" /\ name \notin DOMAIN packages
               THEN (name :> entry) @@ packages ELSE packages)

\* The branch of the else-if chain a line takes.
ClassicBranch(line) ==
    IF line = <<>> \/ Head(line) = "#" \/ \A i \in DOMAIN line : line[i] = " " THEN "skip"
    ELSE IF Head(line) # " " /\ "@" \in Range_(line) THEN "header"
    ELSE IF "version" \in Range_(line) THEN "version"
    ELSE IF "resolved" \in Range_(line) THEN "resolved"
    ELSE IF "integrity" \in Range_(line) THEN "integrity"
    ELSE "none"

\* The loop of parseYarnClassic over the lines, from the state
\* (currentPackageNames, the three current fields, packages).
RECURSIVE ClassicLoop(_, _, _, _)
ClassicLoop(lines, names, entry, packages) ==
    IF lines = <<>> THEN SaveClassicEntry(names, entry, packages)
    ELSE LET line == Head(lines)
             branch == ClassicBranch(line)
             match == IF branch \in {"version", "resolved", "integrity"}
                        THEN KeyMatch(line, branch) ELSE ""
         IN  IF branch = "header"
               THEN ClassicLoop(Tail(lines), HeaderSpecs(line),
                                [version |-> "", resolved |-> "", integrity |-> ""],
                                SaveClassicEntry(names, entry, packages))
             ELSE IF match # ""
               THEN ClassicLoop(Tail(lines), names, [entry EXCEPT ![branch] = match], packages)
             ELSE ClassicLoop(Tail(lines), names, entry, packages)

parseYarnClassicText(lines) ==
    [packages |-> ClassicLoop(lines, <<>>,
                              [version |-> "", resolved |-> "", integrity |-> ""],
                              NoClassicEntries),
     fallback |-> FALSE]

\* The lines of the Classic texts: two headers, the three field lines of an
\* entry, a second version, a `dependencies:` line, a dependency on
\* `latest-version`, and a resolved line whose URL holds the word.
ClassicTextLines ==
    { <<"a", "@", "^1.0.0", ":">>,
      <<"b", "@", "^2.0.0", ":">>,
      <<" ", "version", " ", Quote, "1.0.0", Quote>>,
      <<" ", "version", " ", Quote, "2.0.0", Quote>>,
      <<" ", "resolved", " ", Quote, "https://r/a.tgz", Quote>>,
      <<" ", "integrity", " ", "sha512-a">>,
      <<" ", "dependencies", ":">>,
      <<" ", " ", "latest-", "version", " ", Quote, "^5.0.0", Quote>>,
      <<" ", "resolved", " ", Quote, "https://r/", "version", "-check.tgz", Quote>> }

MaxTextLines == 4

ClassicTexts == SeqsUpTo(ClassicTextLines, MaxTextLines)

(***************************************************************************)
(* The document walks as actions.                                          *)
(***************************************************************************)
InitDocuments ==
    /\ pc = "ready"
    /\ fs = NoFs
    /\ ret = NoRet
    /\ cachedRules = NoCache
    /\ \/ args \in [op : {"walkNpmDocument"}, doc : NpmDocuments]
       \/ args \in [op : {"walkPnpmDocument"}, doc : PnpmDocuments]
       \/ args \in [op : {"walkYarnText"}, doc : YarnTexts]
       \/ args \in [op : {"walkYarnClassicText"}, doc : ClassicTexts]

WalkNpmDocument ==
    /\ pc = "ready"
    /\ args.op = "walkNpmDocument"
    /\ ret' = NpmDocumentWalk(args.doc)
    /\ pc' = "done"
    /\ UNCHANGED <<args, fs, cachedRules>>

WalkPnpmDocument ==
    /\ pc = "ready"
    /\ args.op = "walkPnpmDocument"
    /\ ret' = PnpmDocumentWalk(args.doc)
    /\ pc' = "done"
    /\ UNCHANGED <<args, fs, cachedRules>>

WalkYarnText ==
    /\ pc = "ready"
    /\ args.op = "walkYarnText"
    /\ ret' = YarnTextWalk(args.doc)
    /\ pc' = "done"
    /\ UNCHANGED <<args, fs, cachedRules>>

WalkYarnClassicText ==
    /\ pc = "ready"
    /\ args.op = "walkYarnClassicText"
    /\ ret' = parseYarnClassicText(args.doc)
    /\ pc' = "done"
    /\ UNCHANGED <<args, fs, cachedRules>>

NextDocuments ==
    \/ WalkNpmDocument
    \/ WalkPnpmDocument
    \/ WalkYarnText
    \/ WalkYarnClassicText

SpecDocuments == InitDocuments /\ [][NextDocuments]_vars

(***************************************************************************)
(* C16: in the npm v2/v3 path, every key of `packages` that records a      *)
(* version contributes an entry named by the text after the last           *)
(* "node_modules/" of the key, the root entry (empty key) contributes      *)
(* nothing, and of several keys deriving one name the last in document     *)
(* order is kept.                                                          *)
(***************************************************************************)
\* The text after the last "node_modules/" of a key; the key itself when it
\* holds none.
AfterLastNodeModules(key) ==
    LET at == { i \in 1..(Len(key) - 1) : key[i] = "node_modules" } IN
    IF at = {} THEN JoinPath(key) ELSE JoinPath(SubSeq(key, Max(at) + 1, Len(key)))

C16_NpmPackagesKeys ==
    (Done("walkNpmDocument") /\ args.doc.packages.present /\ ~ret.fallback) =>
        LET es == args.doc.packages.entries
            contributing == { i \in DOMAIN es : es[i].version # "" /\ es[i].key # <<>> }
            named(n) == { i \in contributing : AfterLastNodeModules(es[i].key) = n }
        IN  /\ DOMAIN ret.packages = { AfterLastNodeModules(es[i].key) : i \in contributing }
            /\ \A n \in DOMAIN ret.packages :
                  named(n) # {} => ret.packages[n].version = es[Max(named(n))].version

(***************************************************************************)
(* C17: in the npm v1 fallback the `dependencies` tree is flattened        *)
(* recursively and a name occurring more than once keeps the version of    *)
(* its first occurrence in traversal order.                                *)
(***************************************************************************)
\* The nodes of a tree in traversal order: a node, its dependencies, its
\* later siblings.
RECURSIVE Traversal(_)
Traversal(deps) ==
    IF deps = <<>> THEN <<>>
    ELSE <<Head(deps)>> \o Traversal(Head(deps).dependencies) \o Traversal(Tail(deps))

C17_NpmV1FirstWins ==
    (Done("walkNpmDocument") /\ ret.fallback) =>
        LET nodes == Traversal(args.doc.dependencies.entries)
            occurrences(n) == { i \in DOMAIN nodes : nodes[i].name = n }
        IN  /\ DOMAIN ret.packages = { nodes[i].name : i \in DOMAIN nodes }
            /\ \A n \in DOMAIN ret.packages :
                  ret.packages[n].version = nodes[Min(occurrences(n))].version

(***************************************************************************)
(* C18: in the pnpm parser the secondary structure (dependencies,          *)
(* devDependencies, importers) only adds names not yet in the map: a name  *)
(* stored from `packages` keeps its entry, an entry whose version begins   *)
(* with "link:" is skipped, and a version is stored without its            *)
(* parenthesised peer suffix.                                              *)
(***************************************************************************)
\* The entries of an object, none when it is absent.
EntriesOf(object) == IF object.present THEN object.entries ELSE <<>>

RECURSIVE ImporterEntries(_)
ImporterEntries(importers) ==
    IF importers = <<>> THEN <<>>
    ELSE EntriesOf(Head(importers).dependencies)
         \o EntriesOf(Head(importers).devDependencies)
         \o ImporterEntries(Tail(importers))

\* The entries of the secondary structure in the order parsePnpmLockfile
\* visits them.
SecondaryEntries(lockfile) ==
    EntriesOf(lockfile.dependencies) \o EntriesOf(lockfile.devDependencies)
    \o ImporterEntries(EntriesOf(lockfile.importers))

IsLink(version) == version # <<>> /\ Head(version) = "link:"

C18_PnpmSecondaryOnlyAdds ==
    Done("walkPnpmDocument") =>
        LET primary == PnpmFromPackages(args.doc)
            entries == SecondaryEntries(args.doc)
            usable(n) == { i \in DOMAIN entries :
                             /\ entries[i].name = n
                             /\ entries[i].version # <<>>
                             /\ ~IsLink(entries[i].version) }
            added == { entries[i].name : i \in DOMAIN entries } \ DOMAIN primary
        IN  /\ \A n \in DOMAIN primary :
                  n \in DOMAIN ret.packages /\ ret.packages[n] = primary[n]
            /\ DOMAIN ret.packages \ DOMAIN primary = { n \in added : usable(n) # {} }
            /\ \A n \in DOMAIN ret.packages \ DOMAIN primary :
                  ret.packages[n].version
                      = Join(BeforeParen(entries[Min(usable(n))].version))

\* A name of `packages` is listed again with another version, a link: entry
\* is passed over, and a version with a peer suffix is stored.
C18_Witness ==
    /\ Done("walkPnpmDocument")
    /\ LET primary == PnpmFromPackages(args.doc)
           entries == SecondaryEntries(args.doc)
       IN  /\ \E i \in DOMAIN entries :
                 /\ entries[i].name \in DOMAIN primary
                 /\ entries[i].version # <<>>
                 /\ ~IsLink(entries[i].version)
                 /\ Join(BeforeParen(entries[i].version)) # primary[entries[i].name].version
           /\ \E i, j \in DOMAIN entries :
                 /\ i < j
                 /\ entries[i].name = entries[j].name
                 /\ entries[i].name \notin DOMAIN primary
                 /\ IsLink(entries[i].version)
                 /\ Positions(entries[j].version, "(") # {}
                 /\ ret.packages[entries[j].name].version
                        = Join(BeforeParen(entries[j].version))

(***************************************************************************)
(* C19: within one parse of a yarn lockfile, Classic or Berry, each        *)
(* derived name maps to the version of the first block in file order       *)
(* whose header lists a specifier for that name; repeated specifiers of    *)
(* one header and later blocks never change it, so the header              *)
(* `"pkg@^1.0.0", "pkg@^2.0.0":` followed by `version "1.2.3"` yields      *)
(* exactly one entry, pkg at 1.2.3.  A block is a header together with     *)
(* the version recorded under it.                                          *)
(***************************************************************************)
YarnStyle(content) == IF isYarnBerry(content) THEN "berry" ELSE "classic"

\* The positions of the header lines of a text.
Headers(lines) == { i \in DOMAIN lines : lines[i].kind = "header" }

\* The version lines of the block that the header at position h opens.
BlockVersionLines(style, lines, h) ==
    { i \in DOMAIN lines :
        /\ i > h
        /\ lines[i].kind = "version"
        /\ lines[i].style = style
        /\ \A j \in Headers(lines) : ~(h < j /\ j < i) }

\* The names the header at position h lists.
BlockNames(style, lines, h) ==
    LET specs == HeaderSpecs(lines[h].tokens) IN
    { SpecName(style, specs[k]) : k \in DOMAIN specs } \ {""}

\* The blocks that list the name n.
BlocksOf(style, lines, n) ==
    { h \in Headers(lines) :
        /\ BlockVersionLines(style, lines, h) # {}
        /\ n \in BlockNames(style, lines, h) }

ClaimedHeader ==
    HeaderLine(<<Quote, "pkg", "@", "^1.0.0", Quote, ",", " ",
                 Quote, "pkg", "@", "^2.0.0", Quote, ":">>)

ScopedPurlName == <<"%40", "scope", "%2F", "pkg">>

ComponentPurls ==
    { NoPurl,
      Purl("pkg:npm/", <<"pkg">>, V(1, 0, 0)),
      Purl("pkg:npm/", ScopedPurlName, V(1, 0, 0)),
      Purl("pkg:npm/", <<"%zz">>, V(1, 0, 0)),
      Purl("pkg:maven/", <<"pkg">>, V(1, 0, 0)),
      Purl("pkg:npm/", <<"pkg">>, Undefined) }

ComponentGroups == {"", "scope"}

Components ==
    { Component("library", <<"pkg">>, V(1, 1, 0), purl, group) :
        purl \in ComponentPurls, group \in ComponentGroups }
    \cup { Component("library", <<"@", "scope", "/", "pkg">>, V(1, 1, 0), NoPurl, group) :
             group \in ComponentGroups }
    \cup { Component("library", <<"pkg">>, Undefined, purl, "") :
             purl \in {NoPurl, Purl("pkg:npm/", <<"pkg">>, V(1, 0, 0))} }
    \cup { Component("application", <<"pkg">>, V(1, 1, 0), purl, "") :
             purl \in {NoPurl, Purl("pkg:npm/", <<"pkg">>, V(1, 0, 0))} }

SbomFiles ==
    {MissingSbom, SbomFile("unreadable", <<>>), SbomFile("garbage", <<>>),
     SbomFile("nullDoc", <<>>), SbomFile("otherFormat", <<>>),
     SbomFile("noComponents", <<>>)}
    \cup { SbomFile("valid", cs) : cs \in SeqsUpTo(Components, MaxComponents) }

InitSbom ==
    /\ pc = "ready"
    /\ ret = NoRet
    /\ cachedRules = NoCache
    /\ args = [op |-> "parseCycloneDXFile", filePath |-> SbomPath]
    /\ \E file \in SbomFiles :
          fs = [dirs |-> (Root :> BareDir), rules |-> EmptyRulesDir, sbom |-> file]

ParseCycloneDXFile ==
    /\ pc = "ready"
    /\ args.op = "parseCycloneDXFile"
    /\ ret' = parseCycloneDXFile(fs.sbom)
    /\ pc' = "done"
    /\ UNCHANGED <<args, fs, cachedRules>>

NextSbom == ParseCycloneDXFile

SpecSbom == InitSbom /\ [][NextSbom]_vars

(***************************************************************************)
(* C20: for every SBOM component of type library with a purl of the form   *)
(* pkg:npm/<name>@<version>, the stored name and version are the           *)
(* percent-decoded name and the version of the purl; the "@group/" prefix  *)
(* is applied only in the fallback to the component's own name and         *)
(* version, when a group is present and the name is not scoped; components *)
(* of any other type are never stored.                                     *)
(***************************************************************************)
\* The name the claim gives a library component.
ClaimedName(component) ==
    IF component.purl.present /\ PurlMatches(component.purl)
      THEN Join(decodeURIComponent(component.purl.name).text)
    ELSE IF component.group # "" /\ ~StartsWithAt(component.name)
      THEN Join(<<"@", component.group, "/">> \o component.name)
    ELSE Join(component.name)

\* The version the claim gives a library component.
ClaimedVersion(component) ==
    IF component.purl.present /\ PurlMatches(component.purl)
      THEN component.purl.version
      ELSE component.version

C20_SbomPurlNames ==
    (Done("parseCycloneDXFile") /\ fs.sbom.content = "valid" /\ ret.present) =>
        LET cs == fs.sbom.components
            storing == { i \in DOMAIN cs :
                           /\ cs[i].type = "library"
                           /\ ClaimedName(cs[i]) # ""
                           /\ ~IsFalsy(ClaimedVersion(cs[i])) }
            named(n) == { i \in storing : ClaimedName(cs[i]) = n }
        IN  /\ DOMAIN ret.packages = { ClaimedName(cs[i]) : i \in storing }
            /\ \A n \in DOMAIN ret.packages :
                  named(n) # {} =>
                      ret.packages[n].version = ClaimedVersion(cs[Max(named(n))])

(***************************************************************************)
(* C21: detectWorkspace takes its type from the first source that yields   *)
(* patterns, in the order pnpm workspace file, lerna config, manifest      *)
(* `workspaces` field; in the last case the type is yarn when a yarn       *)
(* lockfile exists at the root and npm otherwise; when no source yields    *)
(* patterns the type is none with empty patterns and packages.             *)
(***************************************************************************)
\* The sources of the root that yield patterns, read off the files.
PnpmYields == LET c == DirAt(fs, args.rootPath).pnpmWorkspace IN
    c.exists /\ c.content = "valid" /\ c.packages.declared
LernaYields == LET c == DirAt(fs, args.rootPath).lerna IN
    c.exists /\ c.content = "valid"
ManifestYields == LET m == DirAt(fs, args.rootPath).manifest IN
    m.exists /\ m.content = "valid" /\ m.workspaces.declared

C21_DetectionPriority ==
    (Done("detectWorkspace") /\ ~ret.threw) =>
        LET root == DirAt(fs, args.rootPath) IN
        /\ ret.rootPath = args.rootPath
        /\ PnpmYields =>
              ret.type = "pnpm" /\ ret.patterns = root.pnpmWorkspace.packages.patterns
        /\ (~PnpmYields /\ LernaYields) =>
              /\ ret.type = "lerna"
              /\ ret.patterns = IF root.lerna.packages.declared
                                  THEN root.lerna.packages.patterns
                                  ELSE <<Pattern(FALSE, FALSE, <<"packages", "*">>)>>
        /\ (~PnpmYields /\ ~LernaYields /\ ManifestYields) =>
              /\ ret.type = IF root.yarn.exists THEN "yarn" ELSE "npm"
              /\ ret.patterns = root.manifest.workspaces.patterns
        /\ (~PnpmYields /\ ~LernaYields /\ ~ManifestYields) =>
              ret.type = "none" /\ ret.patterns = <<>> /\ ret.packages = <<>>

\* lerna.json and the manifest both yield patterns, the manifest's being
\* other ones, next to a yarn lockfile and a pnpm file that yields none.
C21_Witness ==
    /\ Done("detectWorkspace")
    /\ ~PnpmYields /\ LernaYields /\ ManifestYields
    /\ DirAt(fs, args.rootPath).pnpmWorkspace.exists
    /\ DirAt(fs, args.rootPath).yarn.exists
    /\ ret.type = "lerna"
    /\ ret.patterns # DirAt(fs, args.rootPath).manifest.workspaces.patterns

(***************************************************************************)
(* C22: no project located under an excluded directory appears in          *)
(* ScanResult.projects: the discovery walk never enters a sub-directory    *)
(* whose name is in the default ignore set, whose name starts with ".",    *)
(* or that a caller-supplied ignore pattern such as `examples/**` matches. *)
(***************************************************************************)
\* A caller's pattern matches a directory given by its path from the root:
\* `d/**` matches what lies under d, a pattern without wildcard the
\* directory it names.
IgnoreMatches(pattern, rel) ==
    IF pattern # <<>> /\ pattern[Len(pattern)] = "**"
      THEN /\ Len(rel) >= Len(pattern) - 1
           /\ SubSeq(rel, 1, Len(pattern) - 1) = SubSeq(pattern, 1, Len(pattern) - 1)
      ELSE rel = pattern

\* The directory is excluded from the scan of the root.
Excluded(root, dir, ignorePaths) ==
    \/ Basename(dir) \in DefaultIgnore
    \/ StartsWithDot(Basename(dir))
    \/ \E p \in ignorePaths : IgnoreMatches(p, SubSeq(dir, Len(root) + 1, Len(dir)))

\* The sub-directories of the root on the way to a path, the path included.
DirsDownTo(root, path) ==
    { SubSeq(path, 1, k) : k \in (Len(root) + 1)..Len(path) }

C22_ExcludedDirsNotScanned ==
    (Done("scan") /\ ~ret.threw) =>
        \A i \in DOMAIN ret.projects :
            \A d \in DirsDownTo(args.path, ret.projects[i].path) :
                ~Excluded(args.path, d, args.ignorePaths)

(***************************************************************************)
(* middleware/express.ts and middleware/detector.ts.  A body's content is  *)
(* a sequence of tokens; three of the detector's ten patterns are kept,    *)
(* one of each severity, each standing for the token it matches.           *)
(***************************************************************************)
MaxTokens == 2

ExploitPattern(name, token, severity) ==
    [name |-> name, token |-> token, severity |-> severity]

EXPLOIT_PATTERNS ==
    << ExploitPattern("prototype_pollution", "__proto__", "high"),
       ExploitPattern("encoded_payload", "ZXZhbA", "medium"),
       ExploitPattern("deeply_nested_payload", "[[[[[[[[[[", "low") >>

\* exploit.pattern.test(content)
PatternTest(exploit, content) == \E i \in DOMAIN content : content[i] = exploit.token

\* maxSeverity after the loop over the detected patterns.
MaxSeverity(detectedPatterns) ==
    IF \E i \in DOMAIN detectedPatterns : detectedPatterns[i].severity = "high" THEN "high"
    ELSE IF \E i \in DOMAIN detectedPatterns : detectedPatterns[i].severity = "medium"
      THEN "medium"
    ELSE "low"

detectExploitPatterns(content) ==
    LET detectedPatterns == SelectSeq(EXPLOIT_PATTERNS, LAMBDA e : PatternTest(e, content)) IN
    IF detectedPatterns = <<>>
      THEN [detected |-> FALSE, patterns |-> <<>>, severity |-> "low"]
      ELSE [detected |-> TRUE,
            patterns |-> [i \in DOMAIN detectedPatterns |-> detectedPatterns[i].name],
            severity |-> MaxSeverity(detectedPatterns)]

\* isRscContentType; "" stands for an absent header.
isRscContentType(contentType) ==
    contentType \in {"text/x-component", "application/x-component", "text/x-flight"}

\* isRscEndpoint over the paths of the model.
isRscEndpoint(path) == path \in {"/_next/data/x.json", "/form.action", "/__rsc"}

\* An element of skipPaths: a string, or a RegExp given by the paths it
\* matches.
SkipString(text) == [kind |-> "string", matches |-> {text}]
SkipRegExp(matches) == [kind |-> "regexp", matches |-> matches]

\* Whether the loop over skipPaths ends the handling.
Skipped(skipPaths, requestPath) ==
    \E i \in DOMAIN skipPaths : requestPath \in skipPaths[i].matches

\* A request: its path, its content-type header and its body.  The body
\* comes as rawBody or as body, the latter a string, a Buffer, a parsed
\* object, or an object JSON.stringify raises on; "none" is a request with
\* neither.
Request(path, contentType, source, content) ==
    [path |-> path, contentType |-> contentType, source |-> source, content |-> content]

\* bodyContent: absent without a body, for an empty string and for an object
\* that cannot be serialized; an empty Buffer is a body.
BodyContent(req) ==
    CASE req.source = "none" -> [present |-> FALSE, content |-> <<>>]
      [] req.source = "unserializable" -> [present |-> FALSE, content |-> <<>>]
      [] req.source = "string" /\ req.content = <<>> -> [present |-> FALSE, content |-> <<>>]
      [] OTHER -> [present |-> TRUE, content |-> req.content]

ExpressMiddlewareOptions(action, rscEndpointsOnly, onAlert, skipPaths) ==
    [action |-> action, rscEndpointsOnly |-> rscEndpointsOnly, onAlert |-> onAlert,
     skipPaths |-> skipPaths]

\* What a handled request caused, in order: "next", "403", "log", "alert".
Handled(detected, events) == [detected |-> detected, events |-> events]

\* The switch on `action` with the return after the 403 missing.
TakeActionFallThrough(action) ==
    IF action = "block" THEN <<"403", "next">> ELSE <<"next">>

\* switch (action): 'block' answers 403 with code CVE_2025_55182_BLOCKED and
\* returns, every other value calls next().
TakeAction(action) ==
    IF action = "block" THEN <<"403">> ELSE <<"next">>

\* The calls made once a detection is in hand: logger, onAlert when given
\* (an exception of it is swallowed), then the switch.
OnDetection(options) ==
    <<"log">> \o (IF options.onAlert # "none" THEN <<"alert">> ELSE <<>>)
              \o TakeAction(options.action)

react2shellGuardMiddleware(options, req) ==
    IF Skipped(options.skipPaths, req.path) THEN Handled(FALSE, <<"next">>)
    ELSE IF options.rscEndpointsOnly /\ ~isRscEndpoint(req.path)
      THEN Handled(FALSE, <<"next">>)
    ELSE IF options.rscEndpointsOnly /\ ~isRscContentType(req.contentType)
      THEN Handled(FALSE, <<"next">>)
    ELSE IF ~BodyContent(req).present THEN Handled(FALSE, <<"next">>)
    ELSE IF ~detectExploitPatterns(BodyContent(req).content).detected
      THEN Handled(FALSE, <<"next">>)
    ELSE Handled(TRUE, OnDetection(options))

BodyTokens == {"__proto__", "ZXZhbA", "[[[[[[[[[[", "name"}

Requests ==
    { Request(path, contentType, source, content) :
        path \in {"/api/test", "/health", "/form.action"},
        contentType \in {"", "application/json", "text/x-component"},
        source \in {"none", "rawBody", "string", "buffer", "object", "unserializable"},
        content \in SeqsUpTo(BodyTokens, MaxTokens) }

MiddlewareOptions ==
    { ExpressMiddlewareOptions(action, rscEndpointsOnly, onAlert, skipPaths) :
        action \in {"block", "log", "alert"},
        rscEndpointsOnly \in BOOLEAN,
        onAlert \in {"none", "returns", "throws"},
        skipPaths \in {<<>>, <<SkipString("/health"), SkipRegExp({"/static/app.js"})>>} }

InitMiddleware ==
    /\ pc = "ready"
    /\ fs = NoFs
    /\ ret = NoRet
    /\ cachedRules = NoCache
    /\ args \in [op : {"middleware"}, options : MiddlewareOptions, req : Requests]

Middleware ==
    /\ pc = "ready"
    /\ args.op = "middleware"
    /\ ret' = react2shellGuardMiddleware(args.options, args.req)
    /\ pc' = "done"
    /\ UNCHANGED <<args, fs, cachedRules>>

NextMiddleware == Middleware

SpecMiddleware == InitMiddleware /\ [][NextMiddleware]_vars

(***************************************************************************)
(* C23: for every request the middleware handles, exactly one of next()    *)
(* and the 403 response happens, exactly once.  The 403 is sent only when  *)
(* an exploit pattern was detected in the body and the action is block,    *)
(* and then next() is not called; with action log or alert the detection   *)
(* is logged and next() is called.                                         *)
(***************************************************************************)
Occurrences(events, e) == Cardinality({ i \in DOMAIN events : events[i] = e })

\* The request's body holds a token one of the patterns matches.
BodyHoldsExploit(req) ==
    \E i \in DOMAIN req.content, j \in DOMAIN EXPLOIT_PATTERNS :
        req.content[i] = EXPLOIT_PATTERNS[j].token

NoLockfileResolvable(dir) ==
    /\ \A n \in {"npm", "pnpm", "yarn"} : ~ParserResult(n, DirAt(fs, dir)).present
    /\ ~(ret.workspace.type # "none" /\ InheritingMember(dir) /\ RootLockfile.present)

C24_NoLockfileStillReported ==
    (Done("scan") /\ ~ret.threw /\ getPrimaryRule(fs, cachedRules).found) =>
        \A dir \in ScannedDirs :
            (parsePackageJson(fs, dir).present /\ NoLockfileResolvable(dir)) =>
                /\ \E j \in DOMAIN ret.projects : ret.projects[j].path = dir
                /\ \A j \in DOMAIN ret.projects :
                      ret.projects[j].path = dir =>
                          /\ ret.projects[j].findings = <<>>
                          /\ ~ret.projects[j].vulnerable

\* A member whose own lockfile does not parse is reported without findings
\* next to a root that is vulnerable.
C24_Witness ==
    /\ Done("scan")
    /\ ~ret.threw
    /\ ret.vulnerable
    /\ \E j \in DOMAIN ret.projects :
          /\ ret.projects[j].path # args.path
          /\ DirAt(fs, ret.projects[j].path).npm.exists
          /\ NoLockfileResolvable(ret.projects[j].path)
          /\ ret.projects[j].findings = <<>>
          /\ ~ret.projects[j].vulnerable

(***************************************************************************)
(* C25: in the Classic path the version, resolved and integrity stored for *)
(* an entry are the values of that entry's own `version`, `resolved` and   *)
(* `integrity` key lines: no other line of the entry (a nested dependency  *)
(* line whose package name holds "version", say) changes them and nothing  *)
(* is carried over from another entry.                                     *)
(***************************************************************************)
TextHeaders(lines) == { i \in DOMAIN lines : ClassicBranch(lines[i]) = "header" }

\* The lines of the entry under the header h.
EntryLines(lines, h) ==
    { i \in DOMAIN lines : i > h /\ \A g \in TextHeaders(lines) : g <= h \/ g > i }

\* The value of the entry's last key line for `key`, "" without one.
OwnField(lines, h, key) ==
    LET own == { i \in EntryLines(lines, h) :
                   /\ Len(lines[i]) >= 2 /\ lines[i][1] = " " /\ lines[i][2] = key
                   /\ KeyMatchAt(lines[i], 2) # "" }
    IN  IF own = {} THEN "" ELSE KeyMatchAt(lines[Max(own)], 2)

OwnEntry(lines, h) ==
    [version |-> OwnField(lines, h, "version"),
     resolved |-> OwnField(lines, h, "resolved"),
     integrity |-> OwnField(lines, h, "integrity")]

EntryNames(lines, h) ==
    { ClassicName(HeaderSpecs(lines[h])[k]) : k \in DOMAIN HeaderSpecs(lines[h]) }

C25_ClassicOwnKeyLines ==
    Done("walkYarnClassicText") =>
        \A name \in DOMAIN ret.packages :
            \E h \in TextHeaders(args.doc) :
                /\ name \in EntryNames(args.doc, h)
                /\ ret.packages[name] = OwnEntry(args.doc, h)

(***************************************************************************)
(* C26: a malformed rule file (unparseable JSON, or a document without an  *)
(* id or a packages array) is treated as absent: a load that reads the     *)
(* directory skips it and returns every valid rule file of the directory,  *)
(* in directory order, wherever the malformed file stands.                 *)
(***************************************************************************)
RECURSIVE ValidRules(_)
ValidRules(files) ==
    IF files = <<>> THEN <<>>
    ELSE IF Head(files).kind = "rule" THEN <<Head(files).rule>> \o ValidRules(Tail(files))
    ELSE ValidRules(Tail(files))

C26_MalformedRuleFileSkipped ==
    (pc = "done" /\ args.op = "rules" /\ args.call = "loadRules"
        /\ ret.read /\ fs.rules.readable) =>
            ret.rules = ValidRules(fs.rules.files)

(***************************************************************************)
(* C29: no two entries of the projects of a ScanResult have the same path: *)
(* each project directory, the workspace root included, is scanned and     *)
(* reported at most once, whatever the workspace patterns are.             *)
(***************************************************************************)
C29_ProjectPathsDistinct ==
    (Done("scan") /\ ~ret.threw) =>
        \A i, j \in DOMAIN ret.projects :
            ret.projects[i].path = ret.projects[j].path => i = j

(***************************************************************************)
(* C30: every entry the pnpm parser derives from a key of the `packages`   *)
(* map has the bare package name as its name and a plain version, without  *)
(* the parenthesised peer suffix, as its version; scoped and unscoped keys *)
(* alike, keys of the form name@version(peer@version) included.            *)
(***************************************************************************)
\* The key without its leading slash and without its peer suffix.
PlainKey(key) == BeforeParen(IF key # <<>> /\ Head(key) = "/" THEN Tail(key) ELSE key)

BareName(key) == Join(SubSeq(PlainKey(key), 1, Max(Positions(PlainKey(key), "@")) - 1))

PlainVersion(key) ==
    Join(SubSeq(PlainKey(key), Max(Positions(PlainKey(key), "@")) + 1, Len(PlainKey(key))))

C30_PnpmKeyBareNamePlainVersion ==
    Done("walkPnpmDocument") =>
        LET keys == EntriesOf(args.doc.packages)
            primary == PnpmFromPackages(args.doc)
        IN  /\ DOMAIN primary = { BareName(keys[i]) : i \in DOMAIN keys }
            /\ \A i \in DOMAIN keys :
                  /\ BareName(keys[i]) \in DOMAIN ret.packages
                  /\ \E j \in DOMAIN keys :
                        /\ BareName(keys[j]) = BareName(keys[i])
                        /\ ret.packages[BareName(keys[i])].version = PlainVersion(keys[j])

(***************************************************************************)
(* findPackageJsons call by call, on trees with symbolic links.  A tree is *)
(* the set of its real directories (by their segments below the root), the *)
(* directories that hold a package.json, and its symbolic links: each sits *)
(* in a directory, under the name of its target, and points to a directory *)
(* of the tree, an ancestor included.  readdirSync(dir, {withFileTypes})   *)
(* answers with one Dirent per entry; the Dirent of a symbolic link is a   *)
(* link, whatever it points to.                                            *)
(***************************************************************************)
MaxLinks == 2

WalkRoot == <<>>
WalkDirA == <<"a">>
WalkDirB == <<"a", "b">>
WalkDirNm == <<"node_modules">>

WalkDirSets ==
    { {WalkRoot} \cup inner \cup nm :
        inner \in { {}, {WalkDirA}, {WalkDirA, WalkDirB} },
        nm \in { {}, {WalkDirNm} } }

LinkName(target) == "to-" \o JoinPath(<<"root">> \o target)

Symlink(dir, target) == [dir |-> dir, name |-> LinkName(target), target |-> target]

Tree(dirs, manifests, links) == [dirs |-> dirs, manifests |-> manifests, links |-> links]

WalkTrees ==
    { Tree(dirs, manifests, links) :
        dirs \in WalkDirSets,
        manifests \in SUBSET {WalkRoot, WalkDirA, WalkDirB},
        links \in { l \in SUBSET { Symlink(d, t) : d \in {WalkRoot, WalkDirA, WalkDirB},
                                                  t \in {WalkRoot, WalkDirA, WalkDirB} } :
                      Cardinality(l) <= MaxLinks } } 

Dirent(name, kind, real) == [name |-> name, kind |-> kind, real |-> real]

\* readdirSync(dir, { withFileTypes: true }) of the directory `real`.
ReadDir(tree, real) ==
    { Dirent(Basename(d), "dir", d) :
        d \in { c \in tree.dirs : Len(c) = Len(real) + 1 /\ IsPrefix(real, c) } }
    \cup { Dirent(l.name, "link", l.target) :
             l \in { k \in tree.links : k.dir = real /\ k.target \in tree.dirs } }
    \cup (IF real \in tree.manifests THEN {Dirent("package.json", "file", real)} ELSE {})

\* Dirent.isDirectory() answering for the target of a link (what statSync
\* would say).
isDirectoryOfTarget(entry) == entry.kind \in {"dir", "link"}

\* Dirent.isDirectory(): false for a symbolic link.
isDirectory(entry) == entry.kind = "dir"

\* A pending call walk(dir): the path it was called with and the real
\* directory behind the path.
WalkCall(path, real) == [path |-> path, real |-> real]

\* The calls walk(join(dir, entry.name)) that the loop of walk(dir) makes.
WalkCalls(tree, call, ignoreSet) ==
    LET entries == SetToSeq({ e \in ReadDir(tree, call.real) :
                                /\ isDirectory(e)
                                /\ e.name \notin ignoreSet
                                /\ ~StartsWithDot(e.name) })
    IN  [i \in DOMAIN entries |->
            WalkCall(Append(call.path, entries[i].name), entries[i].real)]

\* The state of a run of findPackageJsons: the pending calls (the next one
\* first), the real directories of the calls made so far, and `results`.
WalkState(stack, visited, results) ==
    [stack |-> stack, visited |-> visited, results |-> results]

InitWalk ==
    /\ pc = "ready"
    /\ ret = NoRet
    /\ cachedRules = NoCache
    /\ args = [op |-> "findPackageJsons", rootDir |-> WalkRoot]
    /\ \E tree \in WalkTrees :
          /\ tree.manifests \subseteq tree.dirs
          /\ \A l \in tree.links : l.dir \in tree.dirs /\ l.target \in tree.dirs
          /\ fs = [tree |-> tree]

\* walk(rootDir) is called.
WalkStart ==
    /\ pc = "ready"
    /\ args.op = "findPackageJsons"
    /\ ret' = WalkState(<<WalkCall(args.rootDir, args.rootDir)>>, <<>>, <<>>)
    /\ pc' = "walking"
    /\ UNCHANGED <<args, fs, cachedRules>>

\* One call walk(dir): the existsSync test, then the loop over the entries,
\* whose calls run before the calls still pending.
WalkDir ==
    /\ pc = "walking"
    /\ ret.stack # <<>>
    /\ LET call == Head(ret.stack) IN
          ret' = WalkState(WalkCalls(fs.tree, call, DefaultIgnore) \o Tail(ret.stack),
                           Append(ret.visited, call.real),
                           IF call.real \in fs.tree.manifests
                             THEN Append(ret.results, call.path) ELSE ret.results)
    /\ pc' = "walking"
    /\ UNCHANGED <<args, fs, cachedRules>>

\* return results
WalkReturn ==
    /\ pc = "walking"
    /\ ret.stack = <<>>
    /\ pc' = "done"
    /\ UNCHANGED <<args, fs, ret, cachedRules>>

NextWalk == WalkStart \/ WalkDir \/ WalkReturn

SpecWalk == InitWalk /\ [][NextWalk]_vars /\ WF_vars(NextWalk)

(***************************************************************************)
(* C27: the discovery walk terminates on every finite tree, trees whose    *)
(* symbolic links form a cycle included, and visits each directory at most *)
(* once.                                                                   *)
(***************************************************************************)
VisitedOnce ==
    (args.op = "findPackageJsons" /\ pc \in {"walking", "done"}) =>
        \A i, j \in DOMAIN ret.visited : ret.visited[i] = ret.visited[j] => i = j

C27_WalkTerminates == []VisitedOnce /\ <>(pc = "done")

\* A finished walk of a tree in which a directory two levels down holds a
\* link back to the root, and every directory on the cycle was visited.
C27_Witness ==
    /\ Done("findPackageJsons")
    /\ Symlink(WalkDirB, WalkRoot) \in fs.tree.links
    /\ Symlink(WalkRoot, WalkDirB) \in fs.tree.links
    /\ ret.visited = <<WalkRoot, WalkDirA, WalkDirB>>
    /\ ret.results = <<WalkRoot, WalkDirB>>

(***************************************************************************)
(* url-scanner.ts: scanUrls.  JavaScript runs one callback at a time, so a *)
(* worker (a call of processBatch) runs from one `await scanUrl` to the    *)
(* next without interruption; the interleavings are the orders in which    *)
(* the pending scanUrl promises settle.  A URL is the sequence of its      *)
(* tokens (a space, a scheme, the rest); what the probe finds is the       *)
(* network's choice.                                                       *)
(***************************************************************************)
MaxUrls == 3
MaxThreads == 3

Urls ==
    { <<>>, <<"a.example">>, <<"https://", "a.example">>, <<" ", "http://", "b.example">> }

UrlLists == SeqsUpTo(Urls, MaxUrls)

\* What the request of scanUrl ends in: a 500 answer matching a pattern,
\* any other answer, a rejection with a message, one with an empty message.
ProbeOutcomes == {"vulnerable", "clean", "error", "blankError"}

\* targetUrl of scanUrl: trimmed, with https:// put before a URL that
\* names no scheme.
TargetUrl(url) ==
    LET trimmed == Trim(url) IN
    IF trimmed # <<>> /\ Head(trimmed) \in {"http://", "https://"} THEN Join(trimmed)
    ELSE "https://" \o Join(trimmed)

\* UrlScanResult, of which url, vulnerable and error matter here; hasError
\* tells a result with an error field from one without.
UrlScanResult(url, vulnerable, hasError, error) ==
    [url |-> url, vulnerable |-> vulnerable, hasError |-> hasError, error |-> error]

\* scanUrl: the result it resolves to, given what the request ended in.
scanUrl(url, outcome) ==
    CASE outcome = "vulnerable" -> UrlScanResult(TargetUrl(url), TRUE, FALSE, "")
      [] outcome = "clean"      -> UrlScanResult(TargetUrl(url), FALSE, FALSE, "")
      [] outcome = "error"      -> UrlScanResult(TargetUrl(url), FALSE, TRUE, "fetch failed")
      [] OTHER                  -> UrlScanResult(TargetUrl(url), FALSE, TRUE, "")

Worker(state, url) == [state |-> state, url |-> url]

\* processBatch from the head of its while loop to its next await or its
\* end: `while (queue.length > 0) { url = queue.shift(); if (!url) break;`
TakeUrl(queue) ==
    IF queue = <<>> THEN [queue |-> queue, worker |-> Worker("finished", <<>>)]
    ELSE IF Join(Head(queue)) = "" THEN [queue |-> Tail(queue), worker |-> Worker("finished", <<>>)]
    ELSE [queue |-> Tail(queue), worker |-> Worker("awaiting", Head(queue))]

\* Array(n).fill(null).map(() => processBatch()): the workers start one
\* after the other, each running to its first await.
RECURSIVE StartWorkers(_, _, _)
StartWorkers(n, queue, workers) ==
    IF n = 0 THEN [queue |-> queue, workers |-> workers]
    ELSE LET t == TakeUrl(queue) IN
         StartWorkers(n - 1, t.queue, Append(workers, t.worker))

\* The three filters of the result.
BatchScanResult(results) ==
    [totalScanned |-> Len(results),
     vulnerable |-> SelectSeq(results, LAMBDA r : r.vulnerable),
     notVulnerable |-> SelectSeq(results, LAMBDA r : ~r.vulnerable /\ ~(r.hasError /\ r.error # "")),
     errors |-> SelectSeq(results, LAMBDA r : r.hasError /\ r.error # "")]

BatchState(queue, results, completed, workers) ==
    [queue |-> queue, results |-> results, completed |-> completed, workers |-> workers]

InitUrls ==
    /\ pc = "ready"
    /\ fs = NoFs
    /\ ret = NoRet
    /\ cachedRules = NoCache
    /\ args \in [op : {"scanUrls"}, urls : UrlLists, threads : 1..MaxThreads]

\* scanUrls up to `await Promise.all(workers)`.
ScanUrlsStart ==
    /\ pc = "ready"
    /\ args.op = "scanUrls"
    /\ LET started == StartWorkers(Min({args.threads, Len(args.urls)}), args.urls, <<>>)
       IN  ret' = BatchState(started.queue, <<>>, 0, started.workers)
    /\ pc' = "running"
    /\ UNCHANGED <<args, fs, cachedRules>>

\* The scanUrl promise of one worker settles: the worker pushes the result,
\* counts it and runs on to its next await or to its end.
WorkerResumes ==
    /\ pc = "running"
    /\ \E w \in DOMAIN ret.workers, outcome \in ProbeOutcomes :
          /\ ret.workers[w].state = "awaiting"
          /\ LET t == TakeUrl(ret.queue) IN
                ret' = BatchState(t.queue,
                                  Append(ret.results, scanUrl(ret.workers[w].url, outcome)),
                                  ret.completed + 1,
                                  [ret.workers EXCEPT ![w] = t.worker])
    /\ pc' = "running"
    /\ UNCHANGED <<args, fs, cachedRules>>

\* Promise.all(workers) resolves and scanUrls returns.
ScanUrlsReturn ==
    /\ pc = "running"
    /\ \A w \in DOMAIN ret.workers : ret.workers[w].state = "finished"
    /\ ret' = BatchScanResult(ret.results)
    /\ pc' = "done"
    /\ UNCHANGED <<args, fs, cachedRules>>

NextUrls == ScanUrlsStart \/ WorkerResumes \/ ScanUrlsReturn

SpecUrls == InitUrls /\ [][NextUrls]_vars

(***************************************************************************)
(* C28: for any list of URLs and any thread count of at least 1, scanUrls  *)
(* scans every input URL exactly once under every interleaving of its      *)
(* workers and returns totalScanned equal to the number of input URLs,     *)
(* every result standing in exactly one of vulnerable, notVulnerable and   *)
(* errors.                                                                 *)
(***************************************************************************)
Reported == ret.vulnerable \o ret.notVulnerable \o ret.errors

C28_EveryUrlScannedOnce ==
    Done("scanUrls") =>
        /\ ret.totalScanned = Len(args.urls)
        /\ Len(Reported) = ret.totalScanned
        /\ \A u \in Urls :
              Cardinality({ i \in DOMAIN Reported : Reported[i].url = TargetUrl(u) })
                = Cardinality({ i \in DOMAIN args.urls : TargetUrl(args.urls[i]) = TargetUrl(u) })

(***************************************************************************)
(* The whole model: every component's inputs and operations.               *)
(***************************************************************************)
Init ==
    \/ InitMatcher \/ InitParsers \/ InitWorkspace \/ InitScan \/ InitRules
    \/ InitDocuments \/ InitSbom \/ InitMiddleware \/ InitWalk \/ InitUrls

Next ==
    \/ NextMatcher \/ NextParsers \/ NextWorkspace \/ NextScan \/ NextRules
    \/ NextDocuments \/ NextSbom \/ NextMiddleware \/ NextWalk \/ NextUrls

Spec == Init /\ [][Next]_vars

====
